---- MODULE Spec2Model ----
(***************************************************************************)
(* Rules engine (rules.js), game session (gameState.js) and search engine  *)
(* (ai.js) of the checkers application.                                    *)
(*                                                                         *)
(* A board is a function row -> col -> piece code, as the 8x8 array of the *)
(* source.  Move lists are sequences, in the order the source's loops push *)
(* them, because makeMove and the search pick "the first" matching move.   *)
(***************************************************************************)
EXTENDS Integers, Sequences, FiniteSets, TLC

VARIABLES board, currentPlayer, gameStatus, winner, moveHistory,
          capturedPieces, ret, aiResult, store, page

vars == <<board, currentPlayer, gameStatus, winner, moveHistory,
          capturedPieces, ret, aiResult, store, page>>

session == <<board, currentPlayer, gameStatus, winner, moveHistory,
             capturedPieces>>

(***************************************************************************)
(* rules.js: constants                                                     *)
(***************************************************************************)
PIECE_EMPTY == 0
PIECE_RED == 1
PIECE_RED_KING == 2
PIECE_BLACK == 3
PIECE_BLACK_KING == 4

PLAYER_RED == "red"
PLAYER_BLACK == "black"

Players == {PLAYER_RED, PLAYER_BLACK}

\* null of the source (winner, getPieceOwner of an empty cell, "no move")
null == "null"

\* The board is 8 x 8: every loop and bounds check of the source uses 8.
BoardSize == 8

Rows == 0 .. (BoardSize - 1)

Pos(r, c) == [row |-> r, col |-> c]

isInBounds(row, col) ==
    row >= 0 /\ row < BoardSize /\ col >= 0 /\ col < BoardSize

getPieceOwner(piece) ==
    IF piece = PIECE_RED \/ piece = PIECE_RED_KING THEN PLAYER_RED
    ELSE IF piece = PIECE_BLACK \/ piece = PIECE_BLACK_KING THEN PLAYER_BLACK
    ELSE null

isKing(piece) == piece = PIECE_RED_KING \/ piece = PIECE_BLACK_KING

isPlayerPiece(piece, player) == getPieceOwner(piece) = player

getOpponent(player) ==
    IF player = PLAYER_RED THEN PLAYER_BLACK ELSE PLAYER_RED

\* A plausible slip: a BLACK man is given the directions of a RED man.
getDirectionsAllUp(piece) ==
    IF piece = PIECE_RED \/ piece = PIECE_BLACK
    THEN << <<-1, -1>>, <<-1, 1>> >>
    ELSE IF isKing(piece)
         THEN << <<-1, -1>>, <<-1, 1>>, <<1, -1>>, <<1, 1>> >>
    ELSE << >>

\* Directions as <<dr, dc>>, in the order of the source's array literals.
getDirections(piece) ==
    IF piece = PIECE_RED THEN << <<-1, -1>>, <<-1, 1>> >>
    ELSE IF piece = PIECE_BLACK THEN << <<1, -1>>, <<1, 1>> >>
    ELSE IF isKing(piece)
         THEN << <<-1, -1>>, <<-1, 1>>, <<1, -1>>, <<1, 1>> >>
    ELSE << >>

\* A simple move object has no `captured` field in the source; every reader
\* of the field tests isJump first, so the absent field is modelled as <<>>.
SimpleMove(row, col, newRow, newCol) ==
    [from |-> Pos(row, col), to |-> Pos(newRow, newCol),
     isJump |-> FALSE, captured |-> << >>]

JumpMove(originalRow, originalCol, landRow, landCol, newCaptured) ==
    [from |-> Pos(originalRow, originalCol), to |-> Pos(landRow, landCol),
     isJump |-> TRUE, captured |-> newCaptured]

\* The body of the `for (const [dr, dc] of directions)` loop of
\* generateSimpleMoves, from direction i on.
RECURSIVE SimpleLoop(_, _, _, _, _)
SimpleLoop(b, row, col, directions, i) ==
    IF i > Len(directions) THEN << >>
    ELSE LET newRow == row + directions[i][1]
             newCol == col + directions[i][2]
             here == IF isInBounds(newRow, newCol)
                        /\ b[newRow][newCol] = PIECE_EMPTY
                     THEN << SimpleMove(row, col, newRow, newCol) >>
                     ELSE << >>
         IN here \o SimpleLoop(b, row, col, directions, i + 1)

generateSimpleMoves(b, row, col) ==
    SimpleLoop(b, row, col, getDirections(b[row][col]), 1)

\* One valid jump found by the loop of generateJumpMovesRecursive: the
\* continuations if the recursion found any, else the completed sequence.
JumpResultMid(continuedJumps, completed) ==
    << completed >> \o continuedJumps

JumpResult(continuedJumps, completed) ==
    IF Len(continuedJumps) > 0 THEN continuedJumps ELSE << completed >>

\* A plausible slip: any piece can be jumped, the mover's own included.
canJumpAnyPiece(jumpedPiece, landPiece, player) ==
    landPiece = PIECE_EMPTY /\ jumpedPiece # PIECE_EMPTY

\* "Valid jump: land on empty square, jump over opponent piece".
canJump(jumpedPiece, landPiece, player) ==
    /\ landPiece = PIECE_EMPTY
    /\ jumpedPiece # PIECE_EMPTY
    /\ getPieceOwner(jumpedPiece) = getOpponent(player)

\* generateJumpMovesRecursive(board, row, col, visitedBoard, capturedPieces,
\* originalRow, originalCol).  The first call copies board into visitedBoard
\* and sets the original square; the `board` argument is never read after
\* that, so the operator takes visitedBoard only.  JumpLoop is the
\* direction loop from direction i on.
RECURSIVE JumpLoop(_, _, _, _, _, _, _, _)
JumpLoop(visitedBoard, row, col, captured, originalRow, originalCol, directions, i) ==
    IF i > Len(directions) THEN << >>
    ELSE
      LET dr == directions[i][1]
          dc == directions[i][2]
          piece == visitedBoard[row][col]
          player == getPieceOwner(piece)
          jumpedRow == row + dr
          jumpedCol == col + dc
          landRow == row + dr * 2
          landCol == col + dc * 2
          valid ==
            /\ isInBounds(landRow, landCol)
            /\ canJump(visitedBoard[jumpedRow][jumpedCol],
                       visitedBoard[landRow][landCol], player)
          \* the three writes, in the source's order
          newBoard ==
            [[[visitedBoard EXCEPT ![landRow][landCol] = piece]
                EXCEPT ![row][col] = PIECE_EMPTY]
                EXCEPT ![jumpedRow][jumpedCol] = PIECE_EMPTY]
          newCaptured == Append(captured, Pos(jumpedRow, jumpedCol))
          continuedJumps ==
            JumpLoop(newBoard, landRow, landCol, newCaptured,
                     originalRow, originalCol, getDirections(piece), 1)
          here ==
            IF valid
            THEN JumpResult(continuedJumps,
                            JumpMove(originalRow, originalCol,
                                     landRow, landCol, newCaptured))
            ELSE << >>
      IN here \o JumpLoop(visitedBoard, row, col, captured,
                          originalRow, originalCol, directions, i + 1)

generateJumpMovesRecursive(b, row, col) ==
    JumpLoop(b, row, col, << >>, row, col, getDirections(b[row][col]), 1)

\* generateJumps passes the position on unchecked, and the recursion opens
\* with `const piece = visitedBoard[row][col]`.  When row is not an index
\* of the board, visitedBoard[row] is undefined and reading [col] of it
\* raises a TypeError; when only col is off the board, piece is undefined,
\* getDirections(undefined) is [] and the result is the empty list.
generateJumpsRaises(b, position) == position.row \notin DOMAIN b

\* The list generateJumps returns when it returns.
generateJumps(b, position) ==
    IF ~isInBounds(position.row, position.col) THEN << >>
    ELSE generateJumpMovesRecursive(b, position.row, position.col)

\* A plausible slip: the simple moves are appended to the jumps.
generateMovesMixed(b, position) ==
    IF ~isInBounds(position.row, position.col) THEN << >>
    ELSE IF b[position.row][position.col] = PIECE_EMPTY THEN << >>
    ELSE generateJumpMovesRecursive(b, position.row, position.col)
           \o generateSimpleMoves(b, position.row, position.col)

generateMoves(b, position) ==
    IF ~isInBounds(position.row, position.col) THEN << >>
    ELSE IF b[position.row][position.col] = PIECE_EMPTY THEN << >>
    ELSE LET jumps == generateJumpMovesRecursive(b, position.row, position.col)
         IN IF Len(jumps) > 0 THEN jumps
            ELSE generateSimpleMoves(b, position.row, position.col)

\* The squares holding a piece of player, as cell numbers row * 8 + col.
PlayerCells(b, player) ==
    {k \in 0 .. (BoardSize * BoardSize - 1) :
        isPlayerPiece(b[k \div BoardSize][k % BoardSize], player)}

\* The double loop `for row ... for col ...` of generateAllMoves visits the
\* player's pieces in increasing cell number; cells is the set still to
\* visit.  jumpsOnly selects which of the two lists is accumulated.
PieceCount(b, player) == Cardinality(PlayerCells(b, player))

RECURSIVE CollectMoves(_, _, _)
CollectMoves(b, cells, jumpsOnly) ==
    IF cells = {} THEN << >>
    ELSE LET k == CHOOSE x \in cells : \A y \in cells : x <= y
             row == k \div BoardSize
             col == k % BoardSize
             here == IF jumpsOnly
                     THEN generateJumpMovesRecursive(b, row, col)
                     ELSE generateSimpleMoves(b, row, col)
         IN here \o CollectMoves(b, cells \ {k}, jumpsOnly)

\* A plausible slip: the simple moves are returned along with the jumps.
generateAllMovesMixed(b, player) ==
    CollectMoves(b, PlayerCells(b, player), TRUE)
        \o CollectMoves(b, PlayerCells(b, player), FALSE)

\* The end of generateAllMoves: allJumps if there is any, else allMoves,
\* both collected from the player's cells.
MovesOfCells(b, cells, allJumps) ==
    IF Len(allJumps) > 0 THEN allJumps ELSE CollectMoves(b, cells, FALSE)

JumpsThenMoves(b, cells) ==
    MovesOfCells(b, cells, CollectMoves(b, cells, TRUE))

generateAllMoves(b, player) == JumpsThenMoves(b, PlayerCells(b, player))

\* legalMoves.some(move => move.to.row === to.row && move.to.col === to.col)
HasMoveTo(moves, to) ==
    \E i \in 1 .. Len(moves) :
        moves[i].to.row = to.row /\ moves[i].to.col = to.col

\* A plausible slip: the ownership test is left out.
isValidMoveAnyOwner(b, from, to, player) ==
    IF ~isInBounds(from.row, from.col) \/ ~isInBounds(to.row, to.col)
    THEN FALSE
    ELSE HasMoveTo(generateMoves(b, from), to)

isValidMove(b, from, to, player) ==
    IF ~isInBounds(from.row, from.col) \/ ~isInBounds(to.row, to.col)
    THEN FALSE
    ELSE IF ~isPlayerPiece(b[from.row][from.col], player) THEN FALSE
    ELSE HasMoveTo(generateMoves(b, from), to)

\* A plausible slip: only the captures are looked at.
hasLegalMovesByCapture(b, player) ==
    Len(CollectMoves(b, PlayerCells(b, player), TRUE)) > 0

hasLegalMoves(b, player) == Len(generateAllMoves(b, player)) > 0

(***************************************************************************)
(* applyMove.  The source copies the board (`board.map(row => [...row])`)  *)
(* and writes only into the copy.  To make "the argument is not modified"  *)
(* a checkable statement, the call is modelled over a store of two array   *)
(* objects: "src", the caller's board, and "new", the copy; newBoardRef    *)
(* is the object the local `newBoard` refers to.                           *)
(***************************************************************************)
\* Variant without the copy: `newBoard` would be the caller's own array.
aliasedBoardRef == "src"

newBoardRef == "new"

RECURSIVE ClearCaptured(_, _, _, _)
ClearCaptured(h, ref, captured, i) ==
    IF i > Len(captured) THEN h
    ELSE ClearCaptured(
           [h EXCEPT ![ref][captured[i].row][captured[i].col] = PIECE_EMPTY],
           ref, captured, i + 1)

\* A plausible slip: the promotion of a BLACK man is left out.
applyMoveStoreRedKingsOnly(b, move) ==
    LET h0 == [src |-> b, new |-> b]
        ref == newBoardRef
        piece == h0[ref][move.from.row][move.from.col]
        h1 == [h0 EXCEPT ![ref][move.to.row][move.to.col] = piece]
        h2 == [h1 EXCEPT ![ref][move.from.row][move.from.col] = PIECE_EMPTY]
        h3 == IF move.isJump THEN ClearCaptured(h2, ref, move.captured, 1)
              ELSE h2
    IN IF piece = PIECE_RED /\ move.to.row = 0
       THEN [h3 EXCEPT ![ref][move.to.row][move.to.col] = PIECE_RED_KING]
       ELSE h3

\* The store after applyMove(board, move) has run.
applyMoveStore(b, move) ==
    LET h0 == [src |-> b, new |-> b]
        ref == newBoardRef
        piece == h0[ref][move.from.row][move.from.col]
        h1 == [h0 EXCEPT ![ref][move.to.row][move.to.col] = piece]
        h2 == [h1 EXCEPT ![ref][move.from.row][move.from.col] = PIECE_EMPTY]
        h3 == IF move.isJump THEN ClearCaptured(h2, ref, move.captured, 1)
              ELSE h2
    IN IF piece = PIECE_RED /\ move.to.row = 0
       THEN [h3 EXCEPT ![ref][move.to.row][move.to.col] = PIECE_RED_KING]
       ELSE IF piece = PIECE_BLACK /\ move.to.row = BoardSize - 1
       THEN [h3 EXCEPT ![ref][move.to.row][move.to.col] = PIECE_BLACK_KING]
       ELSE h3

\* The returned board.
applyMove(b, move) == applyMoveStore(b, move)[newBoardRef]

(***************************************************************************)
(* gameState.js                                                            *)
(***************************************************************************)
\* A plausible slip: the parity test the other way round.
initializeBoardLight ==
    [row \in Rows |-> [col \in Rows |->
        IF (row + col) % 2 = 1 THEN PIECE_EMPTY
        ELSE IF row < 3 THEN PIECE_BLACK
        ELSE IF row > 4 THEN PIECE_RED
        ELSE PIECE_EMPTY]]

initializeBoard ==
    [row \in Rows |-> [col \in Rows |->
        IF (row + col) % 2 = 0 THEN PIECE_EMPTY
        ELSE IF row < 3 THEN PIECE_BLACK
        ELSE IF row > 4 THEN PIECE_RED
        ELSE PIECE_EMPTY]]

\* new GameState(initialBoard, startingPlayer)
GameState(initialBoard, startingPlayer) ==
    [board |-> initialBoard,
     currentPlayer |-> startingPlayer,
     gameStatus |-> "active",
     winner |-> null,
     moveHistory |-> << >>,
     capturedPieces |-> [p \in Players |-> 0]]

\* The session object held in the variables.
this ==
    [board |-> board,
     currentPlayer |-> currentPlayer,
     gameStatus |-> gameStatus,
     winner |-> winner,
     moveHistory |-> moveHistory,
     capturedPieces |-> capturedPieces]

isGameOver(gs) == gs.gameStatus = "finished"

\* A plausible slip: the isGameOver test is left out.
getLegalMovesAnyStatus(gs, position) == generateMoves(gs.board, position)

getLegalMoves(gs, position) ==
    IF isGameOver(gs) THEN << >> ELSE generateMoves(gs.board, position)

getAllLegalMoves(gs) ==
    IF isGameOver(gs) THEN << >>
    ELSE generateAllMoves(gs.board, gs.currentPlayer)

\* legalMoves.find(m => m.to.row === to.row && m.to.col === to.col):
\* the index of the first match, 0 for undefined.
FindMoveTo(moves, to) ==
    IF HasMoveTo(moves, to)
    THEN CHOOSE i \in 1 .. Len(moves) :
           /\ moves[i].to.row = to.row /\ moves[i].to.col = to.col
           /\ \A j \in 1 .. (i - 1) :
                ~(moves[j].to.row = to.row /\ moves[j].to.col = to.col)
    ELSE 0

\* A plausible slip: the test is made for the side that has just moved.
noMovesLeftForMover(newBoard, next) ==
    ~hasLegalMoves(newBoard, getOpponent(next))

\* `!hasLegalMoves(this.board, this.currentPlayer)` after the turn switch.
noMovesLeft(newBoard, next) == ~hasLegalMoves(newBoard, next)

\* A plausible slip: one is added for a capture, however many pieces fell.
capturedAfterByOne(gs, moveObj) ==
    IF moveObj.isJump
    THEN [gs.capturedPieces EXCEPT ![getOpponent(gs.currentPlayer)] = @ + 1]
    ELSE gs.capturedPieces

\* "Track captured pieces": this.capturedPieces after the `if`.
capturedAfter(gs, moveObj) ==
    IF moveObj.isJump
    THEN [gs.capturedPieces EXCEPT
            ![getOpponent(gs.currentPlayer)] = @ + Len(moveObj.captured)]
    ELSE gs.capturedPieces

\* A plausible slip: moveNumber taken before the push, counting from 0.
historyRecordFromZero(gs, from, to, moveObj) ==
    [from |-> from, to |-> to, player |-> gs.currentPlayer,
     isJump |-> moveObj.isJump, captured |-> moveObj.captured,
     moveNumber |-> Len(gs.moveHistory)]

\* The object pushed to this.moveHistory.
historyRecord(gs, from, to, moveObj) ==
    [from |-> from, to |-> to, player |-> gs.currentPlayer,
     isJump |-> moveObj.isJump, captured |-> moveObj.captured,
     moveNumber |-> Len(gs.moveHistory) + 1]

\* A plausible slip: the winner is not assigned.
winnerAfterUnset(gs, next, over) == gs.winner

\* `this.winner = getOpponent(this.currentPlayer)` when the game is over,
\* after the turn switch.
winnerAfter(gs, next, over) == IF over THEN getOpponent(next) ELSE gs.winner

\* The successful part of makeMove, from `applyMove` to `return true`.
ExecuteMove(gs, from, to, moveObj) ==
    LET newBoard == applyMove(gs.board, moveObj)
        captured1 == capturedAfter(gs, moveObj)
        history1 ==
          Append(gs.moveHistory, historyRecord(gs, from, to, moveObj))
        next == getOpponent(gs.currentPlayer)
        over == noMovesLeft(newBoard, next)
    IN [board |-> newBoard,
        currentPlayer |-> next,
        gameStatus |-> IF over THEN "finished" ELSE gs.gameStatus,
        winner |-> winnerAfter(gs, next, over),
        moveHistory |-> history1,
        capturedPieces |-> captured1]

\* makeMove(from, to): the returned boolean and the session afterwards.
makeMove(gs, from, to) ==
    IF isGameOver(gs) THEN [result |-> FALSE, state |-> gs]
    ELSE IF ~isValidMove(gs.board, from, to, gs.currentPlayer)
    THEN [result |-> FALSE, state |-> gs]
    ELSE LET legalMoves == generateMoves(gs.board, from)
             k == FindMoveTo(legalMoves, to)
         IN IF k = 0 THEN [result |-> FALSE, state |-> gs]
            ELSE [result |-> TRUE,
                  state |-> ExecuteMove(gs, from, to, legalMoves[k])]

\* A plausible slip: the side to move is left to BLACK.
resetStateBlackFirst == GameState(initializeBoard, PLAYER_BLACK)

\* The fields reset() assigns.
resetState == GameState(initializeBoard, PLAYER_RED)

\* getBoard(): `this.board.map(row => [...row])`, a fresh copy of the value.
getBoard(gs) == [row \in Rows |-> [col \in Rows |-> gs.board[row][col]]]

\* clone(): a new GameState on a copy of the board, the other fields copied.
clone(gs) ==
    [GameState(getBoard(gs), gs.currentPlayer) EXCEPT
        !.gameStatus = gs.gameStatus,
        !.winner = gs.winner,
        !.moveHistory = gs.moveHistory,
        !.capturedPieces = gs.capturedPieces]

(***************************************************************************)
(* Sessions as objects.  A GameState object holds three references, to its *)
(* board array, its moveHistory array and its capturedPieces object;       *)
(* makeMove pushes to the history and adds to the tally in place and       *)
(* replaces the board by the array applyMove returned.  The store keeps    *)
(* the array and tally objects in `heap` (reference -> value), the session *)
(* object `game`, the session `clonedGame` that game.clone() returned, and *)
(* `boardCopy`, the array game.getBoard() returned to the caller.  A       *)
(* reference of 0 is "no object".  A board array and its eight row arrays  *)
(* are one heap object: every copy in the source copies both levels.       *)
(***************************************************************************)
NoObject ==
    [board |-> 0, currentPlayer |-> null, gameStatus |-> "none",
     winner |-> null, moveHistory |-> 0, capturedPieces |-> 0]

\* The store of the specifications that do not look at object identity.
NoStore ==
    [heap |-> << >>, game |-> NoObject, clonedGame |-> NoObject,
     boardCopy |-> 0]

\* A reference no object of heap h has.
NewRef(h) ==
    CHOOSE n \in 1 .. (Cardinality(DOMAIN h) + 1) :
        /\ n \notin DOMAIN h
        /\ \A k \in 1 .. (n - 1) : k \in DOMAIN h

\* The heap with a new object of the given value at reference ref.
Allocate(h, ref, value) == (ref :> value) @@ h

\* The session value held by session object o.
Deref(S, o) ==
    [board |-> S.heap[o.board],
     currentPlayer |-> o.currentPlayer,
     gameStatus |-> o.gameStatus,
     winner |-> o.winner,
     moveHistory |-> S.heap[o.moveHistory],
     capturedPieces |-> S.heap[o.capturedPieces]]

\* The references held by the sessions and the caller, in a fixed order.
Roots(S) ==
    << S.game.board, S.game.moveHistory, S.game.capturedPieces,
       S.clonedGame.board, S.clonedGame.moveHistory,
       S.clonedGame.capturedPieces, S.boardCopy >>

\* References are names: the store is kept up to renaming, every object
\* named by the first root that holds it, and objects no root holds
\* (garbage) dropped.
CanonRef(roots, ref) ==
    IF ref = 0 THEN 0
    ELSE CHOOSE i \in 1 .. Len(roots) :
           /\ roots[i] = ref
           /\ \A j \in 1 .. (i - 1) : roots[j] # ref

CanonObject(roots, o) ==
    [o EXCEPT !.board = CanonRef(roots, o.board),
              !.moveHistory = CanonRef(roots, o.moveHistory),
              !.capturedPieces = CanonRef(roots, o.capturedPieces)]

Canon(S) ==
    LET roots == Roots(S)
        live == {i \in 1 .. Len(roots) :
                   roots[i] # 0 /\ CanonRef(roots, roots[i]) = i}
    IN [heap |-> [i \in live |-> S.heap[roots[i]]],
        game |-> CanonObject(roots, S.game),
        clonedGame |-> CanonObject(roots, S.clonedGame),
        boardCopy |-> CanonRef(roots, S.boardCopy)]

\* new GameState(initialBoard, startingPlayer): the board reference is the
\* caller's array, the history and the tally are new objects.
NewGameStore(initialBoard, startingPlayer) ==
    LET gs == GameState(initialBoard, startingPlayer)
    IN [heap |-> (1 :> gs.board) @@ (2 :> gs.moveHistory)
                   @@ (3 :> gs.capturedPieces),
        game |-> [board |-> 1, currentPlayer |-> gs.currentPlayer,
                  gameStatus |-> gs.gameStatus, winner |-> gs.winner,
                  moveHistory |-> 2, capturedPieces |-> 3],
        clonedGame |-> NoObject,
        boardCopy |-> 0]

\* name.makeMove(from, to) on the session object S[name]: r is what
\* makeMove returns and leaves, nb the array applyMove has created.
\* `this.capturedPieces[opponent] += ...` and `this.moveHistory.push(...)`
\* write into the objects the session holds; `this.board = newBoard`
\* replaces the reference.
makeMoveWrites(S, name, r, nb) ==
    IF ~r.result THEN S
    ELSE [S EXCEPT
            !.heap = Allocate(
                       [S.heap EXCEPT
                          ![S[name].capturedPieces] = r.state.capturedPieces,
                          ![S[name].moveHistory] = r.state.moveHistory],
                       nb, r.state.board),
            ![name] = [S[name] EXCEPT
                         !.board = nb,
                         !.currentPlayer = r.state.currentPlayer,
                         !.gameStatus = r.state.gameStatus,
                         !.winner = r.state.winner]]

makeMoveObject(S, name, r) == makeMoveWrites(S, name, r, NewRef(S.heap))

\* name.reset(): three new objects and the initial scalar fields.
resetObject(S, name) ==
    LET b == NewRef(S.heap)
        h1 == Allocate(S.heap, b, resetState.board)
        hist == NewRef(h1)
        h2 == Allocate(h1, hist, resetState.moveHistory)
        cap == NewRef(h2)
        h3 == Allocate(h2, cap, resetState.capturedPieces)
    IN [S EXCEPT
          !.heap = h3,
          ![name] = [board |-> b, currentPlayer |-> resetState.currentPlayer,
                     gameStatus |-> resetState.gameStatus,
                     winner |-> resetState.winner,
                     moveHistory |-> hist, capturedPieces |-> cap]]

\* A plausible slip: getBoard returns `this.board` itself.
getBoardRefAliased(S, name) == S[name].board

\* The array object getBoard() returns: `this.board.map(row => [...row])`
\* is a new array of new rows.
getBoardRef(S, name) == NewRef(S.heap)

\* const copy = name.getBoard(), the caller keeping the returned array.
getBoardObject(S, name) ==
    LET ref == getBoardRef(S, name)
    IN [S EXCEPT !.heap = Allocate(S.heap, ref,
                                   getBoard(Deref(S, S[name]))),
                 !.boardCopy = ref]

\* copy[row][col] = piece, written by the caller into the returned array.
writeBoardCopy(S, row, col, piece) ==
    [S EXCEPT !.heap[S.boardCopy][row][col] = piece]

\* A plausible slip: the clone is given the original's history array.
cloneHistoryRefShared(S, name, fresh) == S[name].moveHistory

\* `clonedGame.moveHistory = [...this.moveHistory]`: a new array.
cloneHistoryRef(S, name, fresh) == fresh

\* A plausible slip: the clone is given the original's tally object.
cloneTallyRefShared(S, name, fresh) == S[name].capturedPieces

\* `clonedGame.capturedPieces = { ...this.capturedPieces }`: a new object.
cloneTallyRef(S, name, fresh) == fresh

\* clonedGame = name.clone(): the constructor is given the array getBoard()
\* returned; the history and the tally are copied into new objects.
cloneObject(S, name) ==
    LET gs == Deref(S, S[name])
        b == getBoardRef(S, name)
        h1 == Allocate(S.heap, b, getBoard(gs))
        hist == cloneHistoryRef(S, name, NewRef(h1))
        h2 == Allocate(h1, hist, gs.moveHistory)
        cap == cloneTallyRef(S, name, NewRef(h2))
        h3 == Allocate(h2, cap, gs.capturedPieces)
    IN [S EXCEPT
          !.heap = h3,
          !.clonedGame = [board |-> b, currentPlayer |-> gs.currentPlayer,
                          gameStatus |-> gs.gameStatus, winner |-> gs.winner,
                          moveHistory |-> hist, capturedPieces |-> cap]]

(***************************************************************************)
(* ai.js.  ADVANCEMENT_BONUS is 0.5 in the source; the model counts every  *)
(* score in halves (ScoreUnit of them to the point), which keeps all       *)
(* scores integers and all comparisons between scores as in the source.    *)
(***************************************************************************)
ScoreUnit == 2
PIECE_VALUE == 10
KING_VALUE == 30
BACK_ROW_BONUS == 2
CENTER_BONUS == 1
\* 0.5 points, in halves
ADVANCEMENT_BONUS == 1
\* the magnitude of a terminal score, in points
WIN_SCORE == 10000
\* Infinity / -Infinity of the source: beyond every score the search returns
Infinity == 1000000

\* String.prototype.toLowerCase on the difficulty names a caller passes.
toLowerCase(str) ==
    IF str \in {"easy", "Easy", "EASY", "eAsY"} THEN "easy"
    ELSE IF str \in {"medium", "Medium", "MEDIUM", "mEdIuM"} THEN "medium"
    ELSE IF str \in {"hard", "Hard", "HARD", "hArD"} THEN "hard"
    ELSE IF str = "EXPERT" THEN "expert"
    ELSE str

\* A plausible slip: the name is looked up as given.
getDifficultyDepthAsGiven(difficulty) ==
    LET normalizedDifficulty == difficulty
    IN IF normalizedDifficulty = "easy" THEN 3
       ELSE IF normalizedDifficulty = "medium" THEN 5
       ELSE IF normalizedDifficulty = "hard" THEN 7
       ELSE 5

\* DIFFICULTY_CONFIG[normalizedDifficulty]?.depth || 5; the members the
\* object literal inherits ('constructor', 'toString') have no depth.
getDifficultyDepth(difficulty) ==
    LET normalizedDifficulty == toLowerCase(difficulty)
    IN IF normalizedDifficulty = "easy" THEN 3
       ELSE IF normalizedDifficulty = "medium" THEN 5
       ELSE IF normalizedDifficulty = "hard" THEN 7
       ELSE 5

isCenterSquare(row, col) == row >= 2 /\ row <= 5 /\ col >= 2 /\ col <= 5

\* A plausible slip: the back row bonus given to RED men only.
pieceScoreRedBackRow(piece, row, col) ==
    LET pieceOwner == getPieceOwner(piece)
        base == IF isKing(piece) THEN ScoreUnit * KING_VALUE
                ELSE ScoreUnit * PIECE_VALUE
        backRow == IF ~isKing(piece) /\ pieceOwner = PLAYER_RED /\ row = 7
                   THEN ScoreUnit * BACK_ROW_BONUS ELSE 0
        advancement == IF isKing(piece) THEN 0
                       ELSE IF pieceOwner = PLAYER_RED
                       THEN (7 - row) * ADVANCEMENT_BONUS
                       ELSE row * ADVANCEMENT_BONUS
        center == IF isCenterSquare(row, col) THEN ScoreUnit * CENTER_BONUS
                  ELSE 0
    IN base + backRow + advancement + center

\* pieceScore of one occupied cell, in halves.
pieceScore(piece, row, col) ==
    LET pieceOwner == getPieceOwner(piece)
        base == IF isKing(piece) THEN ScoreUnit * KING_VALUE
                ELSE ScoreUnit * PIECE_VALUE
        backRow == IF ~isKing(piece)
                      /\ (\/ pieceOwner = PLAYER_RED /\ row = 7
                          \/ pieceOwner = PLAYER_BLACK /\ row = 0)
                   THEN ScoreUnit * BACK_ROW_BONUS ELSE 0
        advancement == IF isKing(piece) THEN 0
                       ELSE IF pieceOwner = PLAYER_RED
                       THEN (7 - row) * ADVANCEMENT_BONUS
                       ELSE row * ADVANCEMENT_BONUS
        center == IF isCenterSquare(row, col) THEN ScoreUnit * CENTER_BONUS
                  ELSE 0
    IN base + backRow + advancement + center

\* The double loop of evaluateBoard over the occupied cells still to visit.
RECURSIVE ScoreLoop(_, _, _)
ScoreLoop(b, player, cells) ==
    IF cells = {} THEN 0
    ELSE LET k == CHOOSE x \in cells : TRUE
             row == k \div BoardSize
             col == k % BoardSize
             s == pieceScore(b[row][col], row, col)
         IN (IF getPieceOwner(b[row][col]) = player THEN s ELSE 0 - s)
              + ScoreLoop(b, player, cells \ {k})

evaluateBoard(b, player) ==
    ScoreLoop(b, player,
              {k \in 0 .. (BoardSize * BoardSize - 1) :
                 b[k \div BoardSize][k % BoardSize] # PIECE_EMPTY})

isTerminalState(gs) == isGameOver(gs)

Abs(x) == IF x < 0 THEN 0 - x ELSE x

Max(x, y) == IF x >= y THEN x ELSE y

Min(x, y) == IF x <= y THEN x ELSE y

\* A plausible slip: the two signs exchanged.
compareMovesQuietFirst(a, b) ==
    IF a.isJump /\ ~b.isJump THEN 1
    ELSE IF ~a.isJump /\ b.isJump THEN -1
    ELSE IF ~a.isJump /\ ~b.isJump
    THEN Abs(b.to.row - b.from.row) - Abs(a.to.row - a.from.row)
    ELSE 0

\* The comparator passed to moves.sort.
compareMoves(a, b) ==
    IF a.isJump /\ ~b.isJump THEN -1
    ELSE IF ~a.isJump /\ b.isJump THEN 1
    ELSE IF ~a.isJump /\ ~b.isJump
    THEN Abs(b.to.row - b.from.row) - Abs(a.to.row - a.from.row)
    ELSE 0

\* Array.prototype.sort is stable: x goes behind every element that does
\* not compare greater than it.
RECURSIVE InsertMove(_, _)
InsertMove(sorted, x) ==
    IF Len(sorted) = 0 THEN << x >>
    ELSE IF compareMoves(sorted[Len(sorted)], x) <= 0
    THEN Append(sorted, x)
    ELSE Append(InsertMove(SubSeq(sorted, 1, Len(sorted) - 1), x),
                sorted[Len(sorted)])

RECURSIVE SortMoves(_, _)
SortMoves(moves, n) ==
    IF n = 0 THEN << >>
    ELSE InsertMove(SortMoves(moves, n - 1), moves[n])

orderMoves(moves) == SortMoves(moves, Len(moves))

\* A plausible slip: the comparison the wrong way round.
CutoffInverted(alpha, beta) == alpha <= beta

\* The test `beta <= alpha` that ends both loops of minimax.
Cutoff(alpha, beta) == beta <= alpha

\* A plausible slip: the remaining depth subtracted from the magnitude.
terminalScoreLessDepth(gs, depth, aiPlayer) ==
    IF gs.winner = aiPlayer THEN ScoreUnit * (WIN_SCORE - depth)
    ELSE IF gs.winner = null THEN 0
    ELSE 0 - ScoreUnit * (WIN_SCORE - depth)

\* The score of a finished session at the given remaining depth.
terminalScore(gs, depth, aiPlayer) ==
    IF gs.winner = aiPlayer THEN ScoreUnit * (WIN_SCORE + depth)
    ELSE IF gs.winner = null THEN 0
    ELSE 0 - ScoreUnit * (WIN_SCORE + depth)

\* What minimax returns: the score, the minimax calls made to compute it in
\* the order they were made (bookkeeping of the model, not program state),
\* and the state its `gameState` argument is in when it returns.
Scored(score, nodes, gs) == [score |-> score, nodes |-> nodes, state |-> gs]

\* One call minimax(gameState, depth, alpha, beta, isMaximizing, aiPlayer):
\* its arguments, what the session passed holds, and the return statement
\* it reaches ("finished" and "static" under the terminal test, "noMoves"
\* and "moves" below it).
MinimaxCall(gs, depth, isMaximizing, aiPlayer, branch) ==
    [depth |-> depth, isMaximizing |-> isMaximizing, aiPlayer |-> aiPlayer,
     toMove |-> gs.currentPlayer, gameStatus |-> gs.gameStatus,
     winner |-> gs.winner, played |-> Len(gs.moveHistory),
     branch |-> branch]

\* The two statements that open every iteration of the search loops,
\*     const clonedState = gameState.clone();
\*     clonedState.makeMove(move.from, move.to);
\* over the two session objects in scope; clonedStateRef is the object the
\* local `clonedState` refers to, the one makeMove is invoked on.
\* Variant without the clone: the move is made on the caller's session.
callerStateRef == "gameState"

clonedStateRef == "clonedState"

CloneAndMove(gs, move) ==
    LET h0 == [gameState |-> gs, clonedState |-> clone(gs)]
        ref == clonedStateRef
    IN [h0 EXCEPT ![ref] = makeMove(h0[ref], move.from, move.to).state]

\* The session the recursive call is made on.
ClonedAfter(gs, move) == CloneAndMove(gs, move)[clonedStateRef]

\* minimax(gameState, depth, alpha, beta, isMaximizing, aiPlayer).  With
\* pruning = TRUE this is the source; with pruning = FALSE it is the same
\* search with the two `break` statements removed.  MoveLoop is the
\* `for (const move of moves)` loop from move i on: the maximizing branch
\* (best is maxScore, alpha is raised) when isMaximizing, else the
\* minimizing branch (best is minScore, beta is lowered).  gs is the state
\* of the `gameState` object as the iterations so far have left it.
RECURSIVE minimaxWith(_, _, _, _, _, _, _)
RECURSIVE MoveLoop(_, _, _, _, _, _, _, _, _, _, _)

\* What one iteration does with the result r of the recursive call.
MoveStep(pruning, gs, depth, alpha, beta, isMaximizing, aiPlayer, moves, i, best, nodes, r) ==
    IF pruning /\ Cutoff(IF isMaximizing THEN Max(alpha, r.score) ELSE alpha,
                         IF isMaximizing THEN beta ELSE Min(beta, r.score))
    THEN Scored(IF isMaximizing THEN Max(best, r.score)
                ELSE Min(best, r.score),
                nodes \o r.nodes, gs)
    ELSE MoveLoop(pruning, gs, depth,
                  IF isMaximizing THEN Max(alpha, r.score) ELSE alpha,
                  IF isMaximizing THEN beta ELSE Min(beta, r.score),
                  isMaximizing, aiPlayer, moves, i + 1,
                  IF isMaximizing THEN Max(best, r.score)
                  ELSE Min(best, r.score),
                  nodes \o r.nodes)

\* A plausible slip: the recursive call keeps the caller's isMaximizing.
MoveIterSameSide(pruning, depth, alpha, beta, isMaximizing, aiPlayer, moves, i, best, nodes, h) ==
    MoveStep(pruning, h.gameState, depth, alpha, beta, isMaximizing, aiPlayer,
             moves, i, best, nodes,
             minimaxWith(pruning, h[clonedStateRef], depth - 1,
                         alpha, beta, isMaximizing, aiPlayer))

\* One iteration, h being the two sessions after its clone and makeMove.
MoveIter(pruning, depth, alpha, beta, isMaximizing, aiPlayer, moves, i, best, nodes, h) ==
    MoveStep(pruning, h.gameState, depth, alpha, beta, isMaximizing, aiPlayer,
             moves, i, best, nodes,
             minimaxWith(pruning, h[clonedStateRef], depth - 1,
                         alpha, beta, ~isMaximizing, aiPlayer))

MoveLoop(pruning, gs, depth, alpha, beta, isMaximizing, aiPlayer, moves, i, best, nodes) ==
    IF i > Len(moves) THEN Scored(best, nodes, gs)
    ELSE MoveIter(pruning, depth, alpha, beta, isMaximizing, aiPlayer,
                  moves, i, best, nodes, CloneAndMove(gs, moves[i]))

\* A plausible slip: the side without a move is taken for the winner.
SearchMovesStuckWins(pruning, gs, depth, alpha, beta, isMaximizing, aiPlayer, moves) ==
    IF Len(moves) = 0
    THEN IF gs.currentPlayer = aiPlayer
         THEN Scored(ScoreUnit * (WIN_SCORE + depth),
                     << MinimaxCall(gs, depth, isMaximizing, aiPlayer,
                                    "noMoves") >>, gs)
         ELSE Scored(0 - ScoreUnit * (WIN_SCORE + depth),
                     << MinimaxCall(gs, depth, isMaximizing, aiPlayer,
                                    "noMoves") >>, gs)
    ELSE MoveLoop(pruning, gs, depth, alpha, beta, isMaximizing,
                  aiPlayer, moves, 1,
                  IF isMaximizing THEN 0 - Infinity ELSE Infinity,
                  << MinimaxCall(gs, depth, isMaximizing, aiPlayer,
                                 "moves") >>)

\* minimax below its terminal test, moves being the ordered legal moves.
SearchMoves(pruning, gs, depth, alpha, beta, isMaximizing, aiPlayer, moves) ==
    IF Len(moves) = 0
    THEN IF (IF gs.currentPlayer = PLAYER_RED
             THEN PLAYER_BLACK ELSE PLAYER_RED) = aiPlayer
         THEN Scored(ScoreUnit * (WIN_SCORE + depth),
                     << MinimaxCall(gs, depth, isMaximizing, aiPlayer,
                                    "noMoves") >>, gs)
         ELSE Scored(0 - ScoreUnit * (WIN_SCORE + depth),
                     << MinimaxCall(gs, depth, isMaximizing, aiPlayer,
                                    "noMoves") >>, gs)
    ELSE MoveLoop(pruning, gs, depth, alpha, beta, isMaximizing,
                  aiPlayer, moves, 1,
                  IF isMaximizing THEN 0 - Infinity ELSE Infinity,
                  << MinimaxCall(gs, depth, isMaximizing, aiPlayer,
                                 "moves") >>)

minimaxWith(pruning, gs, depth, alpha, beta, isMaximizing, aiPlayer) ==
    IF depth = 0 \/ isTerminalState(gs)
    THEN IF isGameOver(gs)
         THEN Scored(terminalScore(gs, depth, aiPlayer),
                     << MinimaxCall(gs, depth, isMaximizing, aiPlayer,
                                    "finished") >>, gs)
         ELSE Scored(evaluateBoard(getBoard(gs), aiPlayer),
                     << MinimaxCall(gs, depth, isMaximizing, aiPlayer,
                                    "static") >>, gs)
    ELSE SearchMoves(pruning, gs, depth, alpha, beta, isMaximizing, aiPlayer,
                     orderMoves(getAllLegalMoves(gs)))

minimax(gs, depth, alpha, beta, isMaximizing, aiPlayer) ==
    minimaxWith(TRUE, gs, depth, alpha, beta, isMaximizing, aiPlayer).score

\* What getMiniMaxMove returns (<< >> for null, else << bestMove >>), the
\* minimax calls made in order, and the state its `gameState` argument is
\* in when it returns.
Found(bestMove, nodes, gs) == [move |-> bestMove, nodes |-> nodes, state |-> gs]

\* The loop of getMiniMaxMove from move i on.
RECURSIVE RootLoop(_, _, _, _, _, _, _, _, _)

RootStep(pruning, gs, depth, aiPlayer, moves, i, bestMove, bestScore, nodes, r) ==
    IF r.score > bestScore
    THEN RootLoop(pruning, gs, depth, aiPlayer, moves, i + 1,
                  << [from |-> moves[i].from, to |-> moves[i].to,
                      score |-> r.score] >>,
                  r.score, nodes \o r.nodes)
    ELSE RootLoop(pruning, gs, depth, aiPlayer, moves, i + 1,
                  bestMove, bestScore, nodes \o r.nodes)

\* A plausible slip: the first call is given the whole depth.
RootIterFullDepth(pruning, depth, aiPlayer, moves, i, bestMove, bestScore, nodes, h) ==
    RootStep(pruning, h.gameState, depth, aiPlayer, moves, i, bestMove,
             bestScore, nodes,
             minimaxWith(pruning, h[clonedStateRef], depth,
                         0 - Infinity, Infinity, FALSE, aiPlayer))

\* One iteration, h being the two sessions after its clone and makeMove.
RootIter(pruning, depth, aiPlayer, moves, i, bestMove, bestScore, nodes, h) ==
    RootStep(pruning, h.gameState, depth, aiPlayer, moves, i, bestMove,
             bestScore, nodes,
             minimaxWith(pruning, h[clonedStateRef], depth - 1,
                         0 - Infinity, Infinity, FALSE, aiPlayer))

RootLoop(pruning, gs, depth, aiPlayer, moves, i, bestMove, bestScore, nodes) ==
    IF i > Len(moves) THEN Found(bestMove, nodes, gs)
    ELSE RootIter(pruning, depth, aiPlayer, moves, i, bestMove, bestScore,
                  nodes, CloneAndMove(gs, moves[i]))

\* A plausible slip: bestScore starts at 0 instead of -Infinity.
RootMovesFromZero(pruning, gs, depth, aiPlayer, moves) ==
    IF Len(moves) = 0 THEN Found(<< >>, << >>, gs)
    ELSE RootLoop(pruning, gs, depth, aiPlayer, moves, 1, << >>, 0, << >>)

\* getMiniMaxMove below `const moves = ...`.
RootMoves(pruning, gs, depth, aiPlayer, moves) ==
    IF Len(moves) = 0 THEN Found(<< >>, << >>, gs)
    ELSE RootLoop(pruning, gs, depth, aiPlayer, moves, 1, << >>,
                  0 - Infinity, << >>)

\* A call getMiniMaxMove(gameState, depth) run to its return.
getMiniMaxMoveRun(pruning, gs, depth) ==
    RootMoves(pruning, gs, depth, gs.currentPlayer,
              orderMoves(getAllLegalMoves(gs)))

\* getMiniMaxMove(gameState, depth): << >> for null, else << bestMove >>.
getMiniMaxMoveWith(pruning, gs, depth) ==
    getMiniMaxMoveRun(pruning, gs, depth).move

getMiniMaxMove(gs, depth) == getMiniMaxMoveWith(TRUE, gs, depth)

\* The minimax calls a getMiniMaxMove search makes, and their number.
SearchCalls(pruning, gs, depth) == getMiniMaxMoveRun(pruning, gs, depth).nodes

SearchNodes(pruning, gs, depth) == Len(SearchCalls(pruning, gs, depth))

\* The returned value without its score: `{ from: ..., to: ... }` or null.
WithoutScore(moveWithScore) ==
    IF Len(moveWithScore) = 0 THEN << >>
    ELSE << [from |-> moveWithScore[1].from, to |-> moveWithScore[1].to] >>

\* A call getBestMove(gameState, difficulty) run to its return.
getBestMoveOf(r) == Found(WithoutScore(r.move), r.nodes, r.state)

getBestMoveRun(gs, difficulty) ==
    getBestMoveOf(getMiniMaxMoveRun(TRUE, gs, getDifficultyDepth(difficulty)))

\* A call getHint(gameState, player) run to its return, player = null when
\* the argument is omitted.
getHintRun(gs, player) ==
    IF gs.currentPlayer # (IF player = null THEN gs.currentPlayer ELSE player)
    THEN Found(<< >>, << >>, gs)
    ELSE getMiniMaxMoveRun(TRUE, gs, 5)

\* getBestMove(gameState, difficulty): the move without its score.
getBestMove(gs, difficulty) == getBestMoveRun(gs, difficulty).move

\* getHint(gameState, player), player = null when the argument is omitted.
getHint(gs, player) == getHintRun(gs, player).move

(***************************************************************************)
(* The sessions the model starts from: the default constructor and         *)
(* `new GameState(board, startingPlayer)` on boards as the tests build     *)
(* them (`Array(8).fill(...)` plus a few pieces on dark squares).          *)
(***************************************************************************)
\* The board holding exactly the pieces <<row, col, piece>> of placed.
BoardOf(placed) ==
    [row \in Rows |-> [col \in Rows |->
        IF \E t \in placed : t[1] = row /\ t[2] = col
        THEN (CHOOSE t \in placed : t[1] = row /\ t[2] = col)[3]
        ELSE PIECE_EMPTY]]

ScenarioBoards ==
    { BoardOf({}),
      BoardOf({<<5, 4, PIECE_RED>>}),
      BoardOf({<<5, 4, PIECE_RED>>, <<4, 3, PIECE_BLACK>>}),
      BoardOf({<<5, 4, PIECE_RED>>, <<4, 5, PIECE_BLACK>>,
               <<2, 5, PIECE_BLACK>>}),
      \* one man can capture, another can only move
      BoardOf({<<4, 3, PIECE_BLACK>>, <<5, 4, PIECE_RED>>,
               <<5, 6, PIECE_RED>>}),
      BoardOf({<<5, 0, PIECE_RED>>, <<2, 1, PIECE_BLACK_KING>>,
               <<2, 3, PIECE_BLACK_KING>>, <<2, 5, PIECE_BLACK_KING>>}),
      \* a king that can capture round a square and land where it started
      BoardOf({<<4, 1, PIECE_RED_KING>>, <<3, 2, PIECE_BLACK>>,
               <<3, 4, PIECE_BLACK>>, <<5, 4, PIECE_BLACK>>,
               <<5, 2, PIECE_BLACK>>, <<0, 7, PIECE_BLACK>>}),
      \* a man that captures into its king row next to another enemy piece
      BoardOf({<<2, 1, PIECE_RED>>, <<1, 2, PIECE_BLACK>>,
               <<1, 4, PIECE_BLACK>>, <<6, 5, PIECE_RED>>}),
      BoardOf({<<5, 6, PIECE_BLACK>>, <<6, 5, PIECE_RED>>,
               <<6, 3, PIECE_RED>>, <<1, 0, PIECE_BLACK>>}),
      \* a man with two capture routes to the same square, one over two
      \* men and one over a king and a man
      BoardOf({<<6, 3, PIECE_RED>>, <<5, 2, PIECE_BLACK>>,
               <<3, 2, PIECE_BLACK>>, <<5, 4, PIECE_BLACK_KING>>,
               <<3, 4, PIECE_BLACK>>}),
      \* a blocked man: RED has a piece but no move
      BoardOf({<<1, 0, PIECE_RED>>, <<0, 1, PIECE_BLACK>>,
               <<2, 3, PIECE_BLACK>>}) }

\* One piece a side: a RED piece on (5,2) or (2,3), a BLACK piece near it.
PairBoards ==
    { BoardOf({<<rp[1], rp[2], rk>>, <<bp[1], bp[2], bk>>}) :
        rp \in {<<5, 2>>, <<2, 3>>},
        rk \in {PIECE_RED, PIECE_RED_KING},
        bp \in {<<4, 3>>, <<3, 2>>, <<1, 2>>, <<6, 1>>},
        bk \in {PIECE_BLACK, PIECE_BLACK_KING} }

InitBoards == {initializeBoard} \cup ScenarioBoards \cup PairBoards

\* Positions a caller may pass: every dark square, two light squares and
\* four positions off the board (one beyond each edge).
PosInputs ==
    {q \in {Pos(r, c) : r \in Rows, c \in Rows} : (q.row + q.col) % 2 = 1}
      \cup {Pos(4, 0), Pos(3, 3)}
      \cup {Pos(-1, 2), Pos(BoardSize, 3), Pos(2, -1), Pos(5, BoardSize)}

\* The caller stops after this many executed moves of one game.
MaxMoves == 3

\* aiResult before any call into ai.js: the call, its arguments (arg is a
\* move list passed in), the returned move (<< >> for null) and, for the
\* functions that return a number or a list, the returned value.
NoResult ==
    [call |-> "none", depth |-> 0, difficulty |-> "", player |-> null,
     move |-> << >>, arg |-> << >>, value |-> 0]

\* The page before main.js and boardView.js are loaded: the module
\* variables of main.js (gameState is the session held in the variables),
\* those of boardView.js, the squares carrying the class 'highlighted', and
\* the pending timers of setTimeout, oldest first.
NoPage ==
    [game |-> 0, gameMode |-> null, aiDifficulty |-> null,
     selectedSquare |-> << >>, validMoves |-> << >>, highlighted |-> {},
     timers |-> << >>]

Install(gs) ==
    /\ board' = gs.board
    /\ currentPlayer' = gs.currentPlayer
    /\ gameStatus' = gs.gameStatus
    /\ winner' = gs.winner
    /\ moveHistory' = gs.moveHistory
    /\ capturedPieces' = gs.capturedPieces

Init ==
    /\ \E b \in InitBoards, p \in Players :
         /\ board = b
         /\ currentPlayer = p
    /\ gameStatus = "active"
    /\ winner = null
    /\ moveHistory = << >>
    /\ capturedPieces = [p \in Players |-> 0]
    /\ ret = [call |-> "new", value |-> TRUE]
    /\ aiResult = NoResult
    /\ store = NoStore
    /\ page = NoPage

\* A call gameState.makeMove(from, to).
MakeMove(from, to) ==
    /\ Len(moveHistory) < MaxMoves \/ gameStatus = "finished"
    /\ LET r == makeMove(this, from, to)
       IN /\ Install(r.state)
          /\ ret' = [call |-> "makeMove", value |-> r.result]
    /\ aiResult' = NoResult
    /\ UNCHANGED <<store, page>>

\* A call gameState.reset().
Reset ==
    /\ Install(resetState)
    /\ ret' = [call |-> "reset", value |-> TRUE]
    /\ aiResult' = NoResult
    /\ UNCHANGED <<store, page>>

Next ==
    \/ \E from \in PosInputs, to \in PosInputs : MakeMove(from, to)
    \/ Reset

Spec == Init /\ [][Next]_vars

(***************************************************************************)
(* The search engine is exercised on small custom boards.                  *)
(***************************************************************************)
\* Two pieces a side.
QuadBoards ==
    { BoardOf({<<5, 2, PIECE_RED>>, <<r2[1], r2[2], r2[3]>>,
               <<2, 3, PIECE_BLACK>>, <<b2[1], b2[2], b2[3]>>}) :
        r2 \in {<<5, 4, PIECE_RED>>, <<4, 5, PIECE_RED_KING>>},
        b2 \in {<<2, 5, PIECE_BLACK>>, <<3, 6, PIECE_BLACK>>} }

\* One man a side, close to each other or to the king row.
MenPairBoards ==
    { BoardOf({<<rp[1], rp[2], PIECE_RED>>, <<bp[1], bp[2], PIECE_BLACK>>}) :
        rp \in {<<5, 2>>, <<2, 3>>},
        bp \in {<<4, 3>>, <<3, 2>>, <<1, 2>>, <<6, 1>>} }

SearchBoards == ScenarioBoards \cup MenPairBoards \cup QuadBoards

\* The depths getMiniMaxMove is called with are 1 .. MaxDepth.
MaxDepth == 3

\* The searches of fixed depth 5 and 7 (getHint, getBestMove 'medium' and
\* 'hard') are run on boards of at most this many pieces.
MaxDeepPieces == 2

DifficultyInputs == {"easy", "medium", "HARD", "expert", ""}

PieceTotal(b) == PieceCount(b, PLAYER_RED) + PieceCount(b, PLAYER_BLACK)

Searchable(depth) == depth <= MaxDepth \/ PieceTotal(board) <= MaxDeepPieces

InitSearch ==
    /\ \E b \in SearchBoards, p \in Players :
         /\ board = b
         /\ currentPlayer = p
    /\ gameStatus = "active"
    /\ winner = null
    /\ moveHistory = << >>
    /\ capturedPieces = [p \in Players |-> 0]
    /\ ret = [call |-> "new", value |-> TRUE]
    /\ aiResult = NoResult
    /\ store = NoStore
    /\ page = NoPage

\* A search call returns: r holds the returned move and the state the
\* session passed to the call is in afterwards.
Returned(call, depth, difficulty, player, r) ==
    /\ aiResult' = [NoResult EXCEPT !.call = call, !.depth = depth,
                                     !.difficulty = difficulty,
                                     !.player = player, !.move = r.move]
    /\ Install(r.state)
    /\ UNCHANGED <<ret, store, page>>

\* A call getMiniMaxMove(gameState, depth).
GetMiniMaxMove(depth) ==
    Returned("getMiniMaxMove", depth, "", null,
             getMiniMaxMoveRun(TRUE, this, depth))

\* A call getBestMove(gameState, difficulty).
GetBestMove(difficulty) ==
    /\ Searchable(getDifficultyDepth(difficulty))
    /\ Returned("getBestMove", 0, difficulty, null,
                getBestMoveRun(this, difficulty))

\* A call getHint(gameState) or getHint(gameState, player).
GetHint(player) ==
    /\ Searchable(5)
    /\ Returned("getHint", 0, "", player, getHintRun(this, player))

NextSearch ==
    \/ \E depth \in 1 .. MaxDepth : GetMiniMaxMove(depth)
    \/ \E difficulty \in DifficultyInputs : GetBestMove(difficulty)
    \/ \E player \in Players \cup {null} : GetHint(player)

SpecSearch == InitSearch /\ [][NextSearch]_vars

(***************************************************************************)
(* Properties                                                              *)
(***************************************************************************)
Squares == {Pos(r, c) : r \in Rows, c \in Rows}

Occupied(b) == {q \in Squares : b[q.row][q.col] # PIECE_EMPTY}

Range(seq) == {seq[i] : i \in 1 .. Len(seq)}

\* The union over the pieces of player of their jump sequences / simple moves.
JumpsOfSide(b, player) ==
    UNION {Range(generateJumps(b, q)) :
             q \in {x \in Squares : isPlayerPiece(b[x.row][x.col], player)}}

SimplesOfSide(b, player) ==
    UNION {Range(generateSimpleMoves(b, q.row, q.col)) :
             q \in {x \in Squares : isPlayerPiece(b[x.row][x.col], player)}}

\* The record makeMove has just pushed.
LastRecord(history) == history[Len(history)]

\* C1: if generateAllMoves(B, S) contains a capture, every element is a
\* capture: the result is the union of the jump sequences of all pieces of
\* S, and the union of the simple moves only when no piece of S can jump.
C1_MandatoryCapture ==
    \A S \in Players :
        LET moves == Range(generateAllMoves(board, S))
        IN /\ (\E m \in moves : m.isJump) => (\A m \in moves : m.isJump)
           /\ moves = IF JumpsOfSide(board, S) # {}
                      THEN JumpsOfSide(board, S)
                      ELSE SimplesOfSide(board, S)

\* A side has a capture while one of its pieces has a simple move.
C1_Witness ==
    \E S \in Players :
        /\ \E m \in Range(generateAllMoves(board, S)) : m.isJump
        /\ SimplesOfSide(board, S) # {}

\* C2: a makeMove call succeeds only if (from, to) is the origin and
\* destination of some move in generateAllMoves(board, currentPlayer), so
\* a non-capturing move is rejected while the side to move has a capture.
C2_MakeMoveOnlyFromAllMoves ==
    [][(ret'.call = "makeMove" /\ ret'.value)
         => \E m \in Range(generateAllMoves(board, currentPlayer)) :
               /\ m.from = LastRecord(moveHistory').from
               /\ m.to = LastRecord(moveHistory').to]_vars

\* The move promotes the moving man.
Promotes(b, m) ==
    \/ b[m.from.row][m.from.col] = PIECE_RED /\ m.to.row = 0
    \/ b[m.from.row][m.from.col] = PIECE_BLACK /\ m.to.row = BoardSize - 1

\* Every capture produced for any piece of the board (generateJumps; the
\* captures of generateMoves and generateAllMoves are among these).
CapturesOn(b) ==
    UNION {Range(generateJumps(b, q)) : q \in Occupied(b)}
      \cup UNION {{m \in Range(generateMoves(b, q)) : m.isJump} :
                    q \in Occupied(b)}
      \cup UNION {{m \in Range(generateAllMoves(b, S)) : m.isJump} :
                    S \in Players}

\* C3 as stated: after any produced capture, no jump exists from its
\* destination square on the board obtained by applying it.
C3_NoJumpLeftAfterCapture ==
    \A m \in CapturesOn(board) :
        Len(generateJumps(applyMove(board, m), m.to)) = 0

\* C3 as amended: the same for every capture that does not promote the
\* moving man; a capture ending on the king row ends there.
C3_NoJumpLeftUnlessPromoted ==
    \A m \in CapturesOn(board) :
        ~Promotes(board, m)
          => Len(generateJumps(applyMove(board, m), m.to)) = 0

\* A capture sequence of two or more jumps that does not promote.
C3_Witness ==
    \E m \in CapturesOn(board) :
        Len(m.captured) >= 2 /\ ~Promotes(board, m)

\* C4: after a successful makeMove the session is finished with winner the
\* side that just moved iff the new side to move has no legal move;
\* otherwise the status is 'active' and the winner null.
C4_FinishedIffNoMoves ==
    (ret.call = "makeMove" /\ ret.value) =>
        LET mover == LastRecord(moveHistory).player
            stuck == Len(generateAllMoves(board, currentPlayer)) = 0
        IN /\ mover = getOpponent(currentPlayer)
           /\ stuck => gameStatus = "finished" /\ winner = mover
           /\ ~stuck => gameStatus = "active" /\ winner = null

\* A successful move has just finished the game.
C4_Witness ==
    /\ ret.call = "makeMove" /\ ret.value
    /\ gameStatus = "finished"
    /\ winner = LastRecord(moveHistory).player

\* C5: once finished, every makeMove call returns false and changes
\* nothing, and getLegalMoves / getAllLegalMoves return the empty list.
C5_FinishedAbsorbing ==
    /\ [][(gameStatus = "finished" /\ ret'.call = "makeMove")
            => (ret'.value = FALSE /\ UNCHANGED session)]_vars
    /\ [](gameStatus = "finished"
            => /\ Len(getAllLegalMoves(this)) = 0
               /\ \A q \in PosInputs : Len(getLegalMoves(this, q)) = 0)

\* A makeMove call has been made on a finished session that still holds a
\* piece able to move on the board.
C5_Witness ==
    /\ gameStatus = "finished"
    /\ ret = [call |-> "makeMove", value |-> FALSE]
    /\ \E q \in Squares : Len(generateMoves(board, q)) > 0

\* C6: in an active session a makeMove call either is accepted, and then
\* its origin and destination are on the board, the origin holds a piece of
\* the side to move and the destination is among that piece's legal moves,
\* or returns false and changes nothing.
C6_RejectedMoveChangesNothing ==
    [][(gameStatus = "active" /\ ret'.call = "makeMove") =>
         \/ ret'.value = FALSE /\ UNCHANGED session
         \/ /\ ret'.value = TRUE
            /\ Len(moveHistory') = Len(moveHistory) + 1
            /\ LET from == LastRecord(moveHistory').from
                   to == LastRecord(moveHistory').to
               IN /\ isInBounds(from.row, from.col)
                  /\ isInBounds(to.row, to.col)
                  /\ board[from.row][from.col] # PIECE_EMPTY
                  /\ getPieceOwner(board[from.row][from.col]) = currentPlayer
                  /\ \E m \in Range(generateMoves(board, from)) : m.to = to]_vars

\* A call was rejected in an active session whose side to move has a move.
C6_Witness ==
    /\ gameStatus = "active"
    /\ ret = [call |-> "makeMove", value |-> FALSE]
    /\ Len(generateAllMoves(board, currentPlayer)) > 0

\* C7: applying a move of generateAllMoves(B, S) lowers the opponent's piece
\* count by exactly the length of the captured list and leaves the count of
\* S unchanged.
C7_PieceCounts ==
    \A S \in Players :
        \A m \in Range(generateAllMoves(board, S)) :
            LET after == applyMove(board, m)
            IN /\ PieceCount(after, getOpponent(S))
                    = PieceCount(board, getOpponent(S)) - Len(m.captured)
               /\ PieceCount(after, S) = PieceCount(board, S)

\* The piece a move must leave on its destination square.
Landed(piece, to) ==
    IF piece = PIECE_RED /\ to.row = 0 THEN PIECE_RED_KING
    ELSE IF piece = PIECE_BLACK /\ to.row = BoardSize - 1
    THEN PIECE_BLACK_KING
    ELSE piece

\* C8: applyMove(B, M) leaves B as it was, and the returned board differs
\* from B only at the origin, destination and captured squares, the moved
\* piece standing on the destination, promoted exactly when it is a RED
\* man landing on row 0 or a BLACK man landing on row 7.
C8_ApplyMoveFrame ==
    \A S \in Players :
        \A m \in Range(generateAllMoves(board, S)) :
            LET after == applyMove(board, m)
                touched == {m.from, m.to} \cup Range(m.captured)
            IN /\ applyMoveStore(board, m).src = board
               /\ \A q \in Squares \ touched :
                     after[q.row][q.col] = board[q.row][q.col]
               /\ after[m.to.row][m.to.col]
                    = Landed(board[m.from.row][m.from.col], m.to)

\* A search call has returned.
Searched == aiResult.call \in {"getMiniMaxMove", "getBestMove", "getHint"}

\* C9: the move and score returned by getMiniMaxMove equal those of the
\* same search with the alpha-beta cutoff removed.
C9_AlphaBetaEquivalence ==
    aiResult.call = "getMiniMaxMove"
      => aiResult.move = getMiniMaxMoveWith(FALSE, this, aiResult.depth)

\* A search has returned in which the cutoff skipped part of the tree.
C9_Witness ==
    /\ aiResult.call = "getMiniMaxMove"
    /\ aiResult.move # << >>
    /\ SearchNodes(TRUE, this, aiResult.depth)
         < SearchNodes(FALSE, this, aiResult.depth)

\* The returned move is legal: it is the origin and destination of a move
\* of getAllLegalMoves(), makeMove accepts it on a clone, and it executes a
\* capture whenever the side to move has one.
ReturnedMoveLegal ==
    LET mv == aiResult.move[1]
        done == makeMove(clone(this), mv.from, mv.to)
    IN /\ \E m \in Range(getAllLegalMoves(this)) :
             m.from = mv.from /\ m.to = mv.to
       /\ done.result
       /\ (\E m \in Range(getAllLegalMoves(this)) : m.isJump)
            => LastRecord(done.state.moveHistory).isJump

\* C10 as stated: getMiniMaxMove, getBestMove and getHint return null iff
\* the side to move has no legal move, and otherwise a legal move.
C10_SearchReturnsLegalMove ==
    Searched =>
        /\ aiResult.move = << >> <=> Len(getAllLegalMoves(this)) = 0
        /\ aiResult.move # << >> => ReturnedMoveLegal

\* C10 as amended: the same for getMiniMaxMove, getBestMove and getHint
\* asked for the side to move (or for no side); getHint asked for the side
\* not to move returns null.
C10_SearchReturnsLegalMoveForMover ==
    Searched =>
        IF aiResult.call = "getHint"
           /\ aiResult.player \notin {null, currentPlayer}
        THEN aiResult.move = << >>
        ELSE /\ aiResult.move = << >> <=> Len(getAllLegalMoves(this)) = 0
             /\ aiResult.move # << >> => ReturnedMoveLegal

\* getHint has returned a move for the side to move, and it is a capture.
C10_Witness ==
    /\ aiResult.call = "getHint"
    /\ aiResult.move # << >>
    /\ \E m \in Range(getAllLegalMoves(this)) :
         m.isJump /\ m.from = aiResult.move[1].from
                  /\ m.to = aiResult.move[1].to

\* The search call that has just returned, made again on the session gs.
Repeated(gs) ==
    IF aiResult.call = "getMiniMaxMove"
    THEN getMiniMaxMove(gs, aiResult.depth)
    ELSE IF aiResult.call = "getBestMove"
    THEN getBestMove(gs, aiResult.difficulty)
    ELSE getHint(gs, aiResult.player)

\* C11: getBestMove, getHint, getMiniMaxMove and minimax leave the session
\* passed to them as it was (board, side to move, status, winner, history,
\* tallies), so the same call made again after any earlier searches
\* returns what it returned before.
C11_SearchLeavesSessionUnchanged ==
    /\ [][Searched' => UNCHANGED session]_vars
    /\ [](Searched => aiResult.move = Repeated(this))
    /\ [](aiResult.call = "getMiniMaxMove" =>
            \A isMaximizing \in BOOLEAN :
                minimaxWith(TRUE, this, aiResult.depth, 0 - Infinity,
                            Infinity, isMaximizing, currentPlayer).state
                  = this)

\* getBestMove has returned a move chosen among several, each of them tried
\* on a clone.
C11_Witness ==
    /\ aiResult.call = "getBestMove"
    /\ aiResult.move # << >>
    /\ Len(getAllLegalMoves(this)) >= 2
    /\ \A m \in Range(getAllLegalMoves(this)) :
         ClonedAfter(this, m) # this

\* A makeMove call has just returned true.
Moved == ret.call = "makeMove" /\ ret.value

\* The move makeMove executes for (from, to) on board b: the first move of
\* the piece on `from` that ends on `to`.
ExecutedMove(b, from, to) ==
    generateMoves(b, from)[FindMoveTo(generateMoves(b, from), to)]

\* C13: a successful makeMove swaps the side to move and appends exactly
\* one record to the history: player the side that moved, the from/to of
\* the call, the executed move's isJump and captured, moveNumber the new
\* length; earlier records are unchanged, record i has moveNumber i, and
\* recorded movers alternate.
C13_HistoryAppendOnly ==
    /\ [][Moved' =>
            /\ currentPlayer' = getOpponent(currentPlayer)
            /\ Len(moveHistory') = Len(moveHistory) + 1
            /\ SubSeq(moveHistory', 1, Len(moveHistory)) = moveHistory
            /\ LET rec == LastRecord(moveHistory')
                   m == ExecutedMove(board, rec.from, rec.to)
               IN /\ rec.player = currentPlayer
                  /\ rec.moveNumber = Len(moveHistory')
                  /\ HasMoveTo(generateMoves(board, rec.from), rec.to)
                  /\ rec.isJump = m.isJump
                  /\ rec.captured = m.captured
                  /\ board' = applyMove(board, m)]_vars
    /\ [](/\ \A i \in 1 .. Len(moveHistory) : moveHistory[i].moveNumber = i
          /\ \A i \in 1 .. (Len(moveHistory) - 1) :
                moveHistory[i + 1].player # moveHistory[i].player)

\* Three moves are on record, one of them a capture.
C13_Witness ==
    /\ Moved
    /\ Len(moveHistory) >= 3
    /\ \E i \in 1 .. Len(moveHistory) : moveHistory[i].isJump

\* C14 as stated: a successful makeMove adds the length of the executed
\* move's captured list to the tally of the side that moved and leaves the
\* other side's tally unchanged.
C14_TallyOfMover ==
    [][Moved' =>
         LET rec == LastRecord(moveHistory')
         IN /\ capturedPieces'[rec.player]
                 = capturedPieces[rec.player] + Len(rec.captured)
            /\ capturedPieces'[getOpponent(rec.player)]
                 = capturedPieces[getOpponent(rec.player)]]_vars

\* C14 as amended: the length of the captured list is added to the tally
\* entry of the mover's opponent, the side whose pieces were captured, and
\* the mover's own entry is unchanged.
C14_TallyOfCapturedSide ==
    [][Moved' =>
         LET rec == LastRecord(moveHistory')
         IN /\ capturedPieces'[getOpponent(rec.player)]
                 = capturedPieces[getOpponent(rec.player)] + Len(rec.captured)
            /\ capturedPieces'[rec.player] = capturedPieces[rec.player]]_vars

\* A capture of two pieces has just been executed and tallied.
C14_Witness ==
    /\ Moved
    /\ Len(LastRecord(moveHistory).captured) = 2
    /\ capturedPieces[getOpponent(LastRecord(moveHistory).player)] >= 2

\* The square midway between two squares two diagonal steps apart.
Midway(a, b) == Pos((a.row + b.row) \div 2, (a.col + b.col) \div 2)

\* A chain of jumps of the piece on origin is the sequence of its landing
\* squares.  The square before landing i, and the squares jumped so far:
Before(origin, chain, i) == IF i = 1 THEN origin ELSE chain[i - 1]

Jumped(origin, chain) ==
    [i \in 1 .. Len(chain) |-> Midway(Before(origin, chain, i), chain[i])]

\* The rows a piece may step towards: a RED man up, a BLACK man down, a
\* king both ways.
RowSteps(piece) ==
    IF piece = PIECE_RED THEN {-1}
    ELSE IF piece = PIECE_BLACK THEN {1}
    ELSE IF isKing(piece) THEN {-1, 1}
    ELSE {}

\* land can be added to the chain: it is two diagonal steps from the end of
\* the chain in a direction of the piece, empty once the piece has left
\* origin, and the square midway holds an opponent piece not jumped before.
Extends(b, origin, chain, land) ==
    LET piece == b[origin.row][origin.col]
        last == Before(origin, chain, Len(chain) + 1)
        mid == Midway(last, land)
    IN /\ land.row - last.row \in {2 * d : d \in RowSteps(piece)}
       /\ land.col - last.col \in {-2, 2}
       /\ b[land.row][land.col] = PIECE_EMPTY \/ land = origin
       /\ getPieceOwner(b[mid.row][mid.col])
            = getOpponent(getPieceOwner(piece))
       /\ mid \notin Range(Jumped(origin, chain))

\* All chains that extend one of the given chains by one or more jumps.
RECURSIVE Chains(_, _, _)
Chains(b, origin, chains) ==
    LET longer == {Append(c, land) :
                     c \in chains,
                     land \in {x \in Squares :
                                 \E y \in chains : Extends(b, origin, y, x)}}
        next == {c \in longer :
                   Extends(b, origin, SubSeq(c, 1, Len(c) - 1), c[Len(c)])}
    IN IF next = {} THEN {} ELSE next \cup Chains(b, origin, next)

\* The maximal chains of the piece on origin, as moves.
MaximalJumps(b, origin) ==
    IF b[origin.row][origin.col] = PIECE_EMPTY THEN {}
    ELSE {JumpMove(origin.row, origin.col, c[Len(c)].row, c[Len(c)].col,
                   Jumped(origin, c)) :
            c \in {x \in Chains(b, origin, {<< >>}) :
                     \A land \in Squares : ~Extends(b, origin, x, land)}}

\* C15: every capture produced has a non-empty captured list of pairwise
\* distinct squares holding opponent pieces on the input board, in the
\* order jumped along a chain of legal jumps from origin to destination,
\* and generateJumps returns exactly the maximal chains of the piece (none
\* when it has no first jump).
C15_JumpSequences ==
    /\ \A q \in Squares :
         /\ Range(generateJumps(board, q)) = MaximalJumps(board, q)
         /\ Len(generateJumps(board, q)) = Cardinality(MaximalJumps(board, q))
    /\ \A m \in CapturesOn(board) :
         /\ m \in MaximalJumps(board, m.from)
         /\ Len(m.captured) > 0
         /\ \A i, j \in 1 .. Len(m.captured) :
               i # j => m.captured[i] # m.captured[j]
         /\ \A i \in 1 .. Len(m.captured) :
               getPieceOwner(board[m.captured[i].row][m.captured[i].col])
                 = getOpponent(getPieceOwner(board[m.from.row][m.from.col]))

\* A piece has two maximal chains of three or more jumps.
C15_Witness ==
    \E q \in Squares :
        /\ Cardinality(Range(generateJumps(board, q))) >= 2
        /\ \A m \in Range(generateJumps(board, q)) : Len(m.captured) >= 3

\* The positions among the inputs that are off the board.
OffBoard == {q \in PosInputs : ~isInBounds(q.row, q.col)}

\* C16: for a position whose row or column is outside 0..7, generateMoves
\* and generateJumps return the empty list and isValidMove and makeMove
\* return false, nothing is raised and no state changes.
C16_OutOfBoundsNeverRaise ==
    \A p \in OffBoard :
        /\ generateMoves(board, p) = << >>
        /\ ~generateJumpsRaises(board, p)
        /\ generateJumps(board, p) = << >>
        /\ \A q \in PosInputs :
              /\ ~isValidMove(board, p, q, currentPlayer)
              /\ ~isValidMove(board, q, p, currentPlayer)
              /\ makeMove(this, p, q) = [result |-> FALSE, state |-> this]
              /\ makeMove(this, q, p) = [result |-> FALSE, state |-> this]

\* The simple moves of the piece on q: one to each adjacent diagonal
\* square, in a row the piece may step towards, that is on the board and
\* empty.
SimpleSteps(b, q) ==
    {SimpleMove(q.row, q.col, q.row + d[1], q.col + d[2]) :
        d \in {x \in RowSteps(b[q.row][q.col]) \X {-1, 1} :
                 /\ q.row + x[1] \in Rows
                 /\ q.col + x[2] \in Rows
                 /\ b[q.row + x[1]][q.col + x[2]] = PIECE_EMPTY}}

\* C17: generateMoves(board, position) is the piece's jump sequences when it
\* has any, else exactly its simple moves, never a mix, and the empty list
\* for an empty or off-board position.
C17_JumpsElseSimpleMoves ==
    \A q \in PosInputs \cup Squares :
        LET moves == generateMoves(board, q)
        IN IF ~isInBounds(q.row, q.col) THEN moves = << >>
           ELSE IF board[q.row][q.col] = PIECE_EMPTY THEN moves = << >>
           ELSE IF MaximalJumps(board, q) # {}
           THEN /\ Range(moves) = MaximalJumps(board, q)
                /\ \A m \in Range(moves) : m.isJump
           ELSE /\ Range(moves) = SimpleSteps(board, q)
                /\ Len(moves) = Cardinality(Range(moves))
                /\ \A m \in Range(moves) : ~m.isJump

\* A piece has a jump and, next to it, an empty square it could step to.
C17_Witness ==
    \E q \in Squares :
        /\ Len(generateMoves(board, q)) > 0
        /\ \A m \in Range(generateMoves(board, q)) : m.isJump
        /\ Len(generateSimpleMoves(board, q.row, q.col)) > 0

\* The squares a capture lands on, one per jumped square, starting from
\* `from`: each landing is the mirror image of the square before it in the
\* jumped square.
RECURSIVE Landings(_, _)
Landings(from, captured) ==
    IF Len(captured) = 0 THEN << >>
    ELSE LET land == Pos(2 * captured[1].row - from.row,
                         2 * captured[1].col - from.col)
         IN << land >> \o Landings(land, Tail(captured))

\* The row changes of the steps of a move: one for a simple move, one per
\* jump for a capture.
RowChanges(m) ==
    IF ~m.isJump THEN {m.to.row - m.from.row}
    ELSE LET lands == Landings(m.from, m.captured)
         IN {lands[i].row - Before(m.from, lands, i).row :
               i \in 1 .. Len(lands)}

\* Every move produced for the piece on q, by either generator.
MovesOf(b, q) == Range(generateMoves(b, q)) \cup Range(generateJumps(b, q))

\* The diagonal neighbours of q the piece on q can step to, and the ones it
\* can make a first jump over, if directions were no restriction.
OpenSteps(b, q) ==
    {d \in {-1, 1} \X {-1, 1} :
        /\ isInBounds(q.row + d[1], q.col + d[2])
        /\ b[q.row + d[1]][q.col + d[2]] = PIECE_EMPTY}

OpenJumps(b, q) ==
    {d \in {-1, 1} \X {-1, 1} :
        /\ isInBounds(q.row + 2 * d[1], q.col + 2 * d[2])
        /\ b[q.row + 2 * d[1]][q.col + 2 * d[2]] = PIECE_EMPTY
        /\ getPieceOwner(b[q.row + d[1]][q.col + d[2]])
             = getOpponent(getPieceOwner(b[q.row][q.col]))}

\* C18: every simple move and every jump step of a RED man goes to a
\* smaller row and of a BLACK man to a larger row, also inside a multi-jump
\* sequence; a king steps to every open diagonal neighbour and jumps in
\* every direction in which a jump is open.
C18_DirectionRule ==
    \A q \in Occupied(board) :
        LET piece == board[q.row][q.col]
        IN /\ piece = PIECE_RED =>
                \A m \in MovesOf(board, q) : \A dr \in RowChanges(m) : dr < 0
           /\ piece = PIECE_BLACK =>
                \A m \in MovesOf(board, q) : \A dr \in RowChanges(m) : dr > 0
           /\ isKing(piece) =>
                /\ \A d \in OpenJumps(board, q) :
                      \E m \in Range(generateJumps(board, q)) :
                          m.captured[1] = Pos(q.row + d[1], q.col + d[2])
                /\ \A d \in OpenSteps(board, q) :
                      \E m \in Range(generateSimpleMoves(board, q.row, q.col)) :
                          m.to = Pos(q.row + d[1], q.col + d[2])
                /\ OpenJumps(board, q) = {} =>
                      \A d \in OpenSteps(board, q) :
                          \E m \in Range(generateMoves(board, q)) :
                              m.to = Pos(q.row + d[1], q.col + d[2])

\* A king has a jump towards a smaller row and one towards a larger row,
\* next to a man that has a jump.
C18_Witness ==
    /\ \E q \in Occupied(board) :
         /\ isKing(board[q.row][q.col])
         /\ \E m1, m2 \in Range(generateJumps(board, q)) :
               m1.captured[1].row < q.row /\ m2.captured[1].row > q.row
    /\ \E q \in Occupied(board) :
         /\ ~isKing(board[q.row][q.col])
         /\ Len(generateJumps(board, q)) > 0

\* The cells of the colour no piece is ever put on.
LightSquares == {q \in Squares : (q.row + q.col) % 2 = 0}

\* C19: from the standard initial board on, every piece stands on a dark
\* square ((row + col) odd), every light square is empty, each side has at
\* most 12 pieces, and no makeMove raises the piece count of a side.
C19_DarkSquaresAndCounts ==
    /\ [](/\ \A q \in LightSquares : board[q.row][q.col] = PIECE_EMPTY
          /\ \A q \in Occupied(board) : (q.row + q.col) % 2 = 1
          /\ \A S \in Players : PieceCount(board, S) <= 12)
    /\ [][Moved' => \A S \in Players :
                      PieceCount(board', S) <= PieceCount(board, S)]_vars

\* A piece has been captured in a game begun on the standard initial board.
C19_Witness ==
    /\ Moved
    /\ LastRecord(moveHistory).isJump
    /\ PieceCount(board, PLAYER_RED) + PieceCount(board, PLAYER_BLACK) = 23

(***************************************************************************)
(* The session as an object, next to the clone game.clone() returned and   *)
(* the array game.getBoard() returned.  The variables board ..             *)
(* capturedPieces hold what the fields of `game` denote.                   *)
(***************************************************************************)
\* The test boards of two or three pieces.
ObjectBoards == {b \in ScenarioBoards : PieceTotal(b) \in {2, 3}}

\* Each session object executes at most this many moves, and none on a
\* board of more than MaxObjectPieces pieces (the board reset() installs).
MaxObjectMoves == 2

MaxObjectPieces == 6

\* The (from, to) a caller passes to makeMove: every move of every piece on
\* the board, a move from an empty square and a move off the board.
CallInputs(gs) ==
    {<<m.from, m.to>> :
        m \in UNION {Range(generateMoves(gs.board, q)) : q \in Squares}}
      \cup {<<Pos(4, 0), Pos(3, 3)>>, <<Pos(5, 0), Pos(-1, 2)>>}

\* What the caller writes into the array getBoard() returned: a king on
\* (0,0), as the test does, or an empty cell over the first piece.
WriteInputs(b) ==
    {<<Pos(0, 0), PIECE_BLACK_KING>>}
      \cup {<<q, PIECE_EMPTY>> :
              q \in {x \in Occupied(b) :
                       \A y \in Occupied(b) :
                           x.row * BoardSize + x.col
                             <= y.row * BoardSize + y.col}}

\* The name a call on the session object S[name] is recorded under.
CallOn(name, method) ==
    IF name = "game" THEN method ELSE "clonedGame." \o method

\* A call has returned value and left the store S.
ObjectStep(call, value, S) ==
    /\ store' = Canon(S)
    /\ Install(Deref(S, S.game))
    /\ ret' = [call |-> call, value |-> value]
    /\ UNCHANGED <<aiResult, page>>

InitObjects ==
    /\ \E b \in ObjectBoards, p \in Players :
         /\ store = Canon(NewGameStore(b, p))
         /\ board = b
         /\ currentPlayer = p
    /\ gameStatus = "active"
    /\ winner = null
    /\ moveHistory = << >>
    /\ capturedPieces = [p \in Players |-> 0]
    /\ ret = [call |-> "new", value |-> TRUE]
    /\ aiResult = NoResult
    /\ page = NoPage

\* The caller lets go of the array getBoard() returned.
Dropped(S) == [S EXCEPT !.boardCopy = 0]

\* The outcome r of makeMove on the session object S[name]; the caller
\* keeps no board copy across an executed move.
ObjectMoved(name, r) ==
    ObjectStep(CallOn(name, "makeMove"), r.result,
               IF r.result THEN Dropped(makeMoveObject(store, name, r))
               ELSE makeMoveObject(store, name, r))

\* game.makeMove(from, to) or clonedGame.makeMove(from, to).
ObjectMakeMove(name, from, to) ==
    /\ store[name].board # 0
    /\ \/ /\ Len(store.heap[store[name].moveHistory]) < MaxObjectMoves
          /\ PieceTotal(store.heap[store[name].board]) <= MaxObjectPieces
       \/ store[name].gameStatus = "finished"
    /\ ObjectMoved(name, makeMove(Deref(store, store[name]), from, to))

\* game.reset() or clonedGame.reset().
ObjectReset(name) ==
    /\ store[name].board # 0
    /\ ObjectStep(CallOn(name, "reset"), TRUE,
                  Dropped(resetObject(store, name)))

\* clonedGame = game.clone()
Clone ==
    ObjectStep("clone", TRUE, cloneObject(store, "game"))

\* copy = game.getBoard()
GetBoard ==
    ObjectStep("getBoard", board, getBoardObject(store, "game"))

\* copy[row][col] = piece, on a copy not written to before.
WriteBoard(q, piece) ==
    /\ store.boardCopy # 0
    /\ store.heap[store.boardCopy] = board
    /\ ObjectStep("write", TRUE, writeBoardCopy(store, q.row, q.col, piece))

\* game.getLegalMoves(position) and game.getAllLegalMoves(): the methods
\* assign to no field and the rules engine works on copies of the board.
GetLegalMoves(position) ==
    ObjectStep("getLegalMoves", getLegalMoves(this, position), store)

GetAllLegalMoves ==
    ObjectStep("getAllLegalMoves", getAllLegalMoves(this), store)

\* The session objects that exist.
Sessions == {name \in {"game", "clonedGame"} : store[name].board # 0}

NextObjects ==
    \/ \E name \in Sessions :
         \E c \in CallInputs(Deref(store, store[name])) :
            ObjectMakeMove(name, c[1], c[2])
    \/ \E name \in Sessions : ObjectReset(name)
    \/ Clone
    \/ GetBoard
    \/ \E w \in WriteInputs(board) : WriteBoard(w[1], w[2])
    \/ \E position \in {Pos(5, 4), Pos(-1, 2)} : GetLegalMoves(position)
    \/ GetAllLegalMoves

SpecObjects == InitObjects /\ [][NextObjects]_vars

\* game.clone() has returned a session.
HasClone == store.clonedGame.board # 0

\* The session value the clone holds.
ClonedSession == Deref(store, store.clonedGame)

\* C12: clone() returns a session equal to the original in board, side to
\* move, status, winner, history and tallies; no makeMove or reset on the
\* clone changes the original, and none on the original changes the clone.
C12_CloneIndependent ==
    /\ [](ret.call = "clone" => HasClone /\ ClonedSession = this)
    /\ [][ret'.call \in {"clonedGame.makeMove", "clonedGame.reset"}
            => UNCHANGED session]_vars
    /\ [][(HasClone /\ ret'.call \in {"makeMove", "reset"})
            => ClonedSession' = ClonedSession]_vars

\* The original was cloned with one move in its history, and the clone has
\* then executed a capture the original has not.
C12_Witness ==
    /\ HasClone
    /\ ret.call = "clonedGame.makeMove"
    /\ ret.value
    /\ Len(moveHistory) = 1
    /\ Len(ClonedSession.moveHistory) = 2
    /\ ClonedSession.moveHistory[1] = moveHistory[1]
    /\ LastRecord(ClonedSession.moveHistory).isJump
    /\ ClonedSession.capturedPieces # capturedPieces
    /\ ClonedSession.board # board

\* The two sessions after game.makeMove(from, to) and then
\* clonedGame.makeMove(from, to): what each call returned and the store
\* the two calls leave.
Replayed(S, from, to) ==
    LET r1 == makeMove(Deref(S, S.game), from, to)
        S1 == makeMoveObject(S, "game", r1)
        r2 == makeMove(Deref(S1, S1.clonedGame), from, to)
        S2 == makeMoveObject(S1, "clonedGame", r2)
    IN [first |-> r1, second |-> r2, store |-> S2]

\* C21: two sessions in equal states that are given the same
\* makeMove(from, to) return the same result and are left in equal states
\* (board, side to move, status, winner, history, tallies), the state
\* makeMove computes from the common state; the sessions are then again in
\* equal states, so the same holds for every further call of a sequence.
C21_DeterministicReplay ==
    (HasClone /\ ClonedSession = this) =>
        \A c \in CallInputs(this) :
            LET p == Replayed(store, c[1], c[2])
            IN /\ p.first.result = p.second.result
               /\ Deref(p.store, p.store.game)
                    = Deref(p.store, p.store.clonedGame)
               /\ Deref(p.store, p.store.game) = p.first.state

\* Both sessions have executed the same two moves, the second a capture;
\* the clone was the last to move and the two are in equal states.
C21_Witness ==
    /\ HasClone
    /\ ret.call = "clonedGame.makeMove"
    /\ ret.value
    /\ ClonedSession = this
    /\ Len(moveHistory) = 2
    /\ LastRecord(moveHistory).isJump
    /\ \E c \in CallInputs(this) : ~Replayed(store, c[1], c[2]).first.result

\* The calls that only read the session, and the caller's write into the
\* array getBoard() returned.
ReadCalls == {"getBoard", "getLegalMoves", "getAllLegalMoves"}

\* C20: getBoard, getLegalMoves(position) and getAllLegalMoves change
\* nothing and return what a second call returns, and writing into a board
\* returned by getBoard changes nothing later calls on the session (or on
\* its clone) observe.
C20_IdempotentReads ==
    /\ [][ret'.call \in ReadCalls \cup {"write"} =>
            /\ UNCHANGED session
            /\ HasClone => ClonedSession' = ClonedSession]_vars
    /\ [](ret.call = "getBoard" =>
            /\ ret.value = getBoard(this)
            /\ store.heap[store.boardCopy] = getBoard(this))
    /\ [](ret.call = "getLegalMoves" =>
            \E position \in PosInputs :
                ret.value = getLegalMoves(this, position))
    /\ [](ret.call = "getAllLegalMoves" => ret.value = getAllLegalMoves(this))

\* The caller has taken a piece off the array getBoard() returned, a piece
\* the session still has and can still move.
C20_Witness ==
    /\ ret.call = "write"
    /\ \E q \in Occupied(board) :
         /\ store.heap[store.boardCopy][q.row][q.col] = PIECE_EMPTY
         /\ Len(getLegalMoves(this, q)) > 0

(***************************************************************************)
(* The functions of ai.js called one by one on sessions a few moves into   *)
(* a game, finished sessions among them.                                   *)
(***************************************************************************)
\* The test boards of at most four pieces and the boards of one man a side.
EngineBoards ==
    {b \in ScenarioBoards : PieceTotal(b) <= 4} \cup MenPairBoards
      \cup {initializeBoard}
      \* a man on its back rank, a man in the centre and a king a side
      \cup {BoardOf({<<7, 2, PIECE_RED>>, <<4, 3, PIECE_RED>>,
                      <<3, 6, PIECE_RED_KING>>, <<0, 1, PIECE_BLACK>>,
                      <<2, 3, PIECE_BLACK>>, <<5, 0, PIECE_BLACK_KING>>})}

\* minimax is called on boards of at most this many pieces.
MaxEnginePieces == 4

\* The session executes at most this many moves.
MaxEngineMoves == 2

\* Difficulty names in several spellings, unknown names, names of members
\* every object inherits, and the empty string.
DifficultyNames ==
    {"easy", "Easy", "EASY", "eAsY", "medium", "Medium", "MEDIUM", "mEdIuM",
     "hard", "Hard", "HARD", "hArD", "expert", "EXPERT", "unknown",
     "constructor",
     "toString", "easy ", ""}

\* The legal moves of the pieces (of both sides) on the given cells, piece
\* by piece, lowest cell first or highest cell first.
RECURSIVE PieceMoves(_, _, _)
PieceMoves(b, cells, ascending) ==
    IF cells = {} THEN << >>
    ELSE LET k == CHOOSE x \in cells :
                    \A y \in cells : IF ascending THEN x <= y ELSE x >= y
         IN generateMoves(b, Pos(k \div BoardSize, k % BoardSize))
              \o PieceMoves(b, cells \ {k}, ascending)

\* The move lists orderMoves is given: all legal moves of the side to move,
\* and the moves of all pieces in both cell orders.
MoveLists(gs) ==
    LET cells == {q.row * BoardSize + q.col : q \in Occupied(gs.board)}
    IN {getAllLegalMoves(gs), PieceMoves(gs.board, cells, TRUE),
        PieceMoves(gs.board, cells, FALSE)}

InitEngine ==
    /\ \E b \in EngineBoards, p \in Players :
         /\ board = b
         /\ currentPlayer = p
    /\ gameStatus = "active"
    /\ winner = null
    /\ moveHistory = << >>
    /\ capturedPieces = [p \in Players |-> 0]
    /\ ret = [call |-> "new", value |-> TRUE]
    /\ aiResult = NoResult
    /\ store = NoStore
    /\ page = NoPage

\* A call gameState.makeMove(from, to) that executes a move.
PlayMove(from, to) ==
    /\ Len(moveHistory) < MaxEngineMoves
    /\ LET r == makeMove(this, from, to)
       IN /\ r.result
          /\ Install(r.state)
          /\ ret' = [call |-> "makeMove", value |-> r.result]
    /\ aiResult' = NoResult
    /\ UNCHANGED <<store, page>>

\* A call into ai.js that leaves the session as gs has returned; the
\* caller makes one call on a position and then goes on with the game.
Called(result, gs) ==
    /\ aiResult.call = "none"
    /\ aiResult' = result
    /\ Install(gs)
    /\ UNCHANGED <<ret, store, page>>

\* A call minimax(gameState, depth, -Infinity, Infinity, isMaximizing,
\* aiPlayer); on an active session the maximizing side is the side to move,
\* as in every call the source makes.
Minimax(depth, isMaximizing, aiPlayer) ==
    /\ gameStatus = "finished" \/ isMaximizing = (aiPlayer = currentPlayer)
    /\ PieceTotal(board) <= MaxEnginePieces
    /\ LET r == minimaxWith(TRUE, this, depth, 0 - Infinity, Infinity,
                            isMaximizing, aiPlayer)
       IN Called([NoResult EXCEPT !.call = "minimax", !.depth = depth,
                                  !.player = aiPlayer, !.value = r.score],
                 r.state)

\* A call evaluateBoard(gameState.getBoard(), player).
EvaluateBoard(player) ==
    Called([NoResult EXCEPT !.call = "evaluateBoard", !.player = player,
                            !.value = evaluateBoard(getBoard(this), player)],
           this)

\* A call orderMoves(moves).
OrderMoves(moves) ==
    Called([NoResult EXCEPT !.call = "orderMoves", !.arg = moves,
                            !.value = orderMoves(moves)],
           this)

\* A call getDifficultyDepth(difficulty).
GetDifficultyDepth(difficulty) ==
    Called([NoResult EXCEPT !.call = "getDifficultyDepth",
                            !.difficulty = difficulty,
                            !.value = getDifficultyDepth(difficulty)],
           this)

NextEngine ==
    \/ \E c \in CallInputs(this) : PlayMove(c[1], c[2])
    \/ \E depth \in 0 .. MaxDepth, isMaximizing \in BOOLEAN,
          aiPlayer \in Players : Minimax(depth, isMaximizing, aiPlayer)
    \/ \E player \in Players : EvaluateBoard(player)
    \/ \E moves \in MoveLists(this) : OrderMoves(moves)
    \/ \E difficulty \in DifficultyNames : GetDifficultyDepth(difficulty)

SpecEngine == InitEngine /\ [][NextEngine]_vars

\* C22: minimax on a finished session with remaining depth d returns
\* 10000 + d when aiPlayer is the winner and -(10000 + d) when the opponent
\* is, so a win scores the more the more depth remains and a loss the less.
C22_TerminalScore ==
    (aiResult.call = "minimax" /\ gameStatus = "finished") =>
        /\ winner = aiResult.player
             => aiResult.value = ScoreUnit * (10000 + aiResult.depth)
        /\ winner = getOpponent(aiResult.player)
             => aiResult.value = 0 - ScoreUnit * (10000 + aiResult.depth)
        /\ \A d \in 0 .. MaxDepth, maxi \in BOOLEAN :
              d < aiResult.depth =>
                 LET less == minimax(this, d, 0 - Infinity, Infinity, maxi,
                                     aiResult.player)
                 IN IF winner = aiResult.player THEN less < aiResult.value
                    ELSE less > aiResult.value

\* minimax has scored a session that a capture finished, for the winner
\* with depth left.
C22_Witness ==
    /\ aiResult.call = "minimax"
    /\ gameStatus = "finished"
    /\ aiResult.depth = 2
    /\ winner = aiResult.player
    /\ Len(moveHistory) > 0
    /\ LastRecord(moveHistory).isJump

\* The session after the move m of its side to move has been executed.
After(gs, m) == ExecuteMove(gs, m.from, m.to, m)

\* The index of the first of the values that is the largest.
FirstMaximum(value) ==
    CHOOSE k \in DOMAIN value :
        /\ \A i \in DOMAIN value : value[i] <= value[k]
        /\ \A i \in DOMAIN value : i < k => value[i] < value[k]

\* The position a top-level move m is scored by: the position m leads to
\* (exact), or the position the call makeMove(m.from, m.to) leads to.
PositionOf(gs, m, exact) ==
    IF exact THEN After(gs, m) ELSE makeMove(gs, m.from, m.to).state

\* The first of the ordered legal moves whose position has the largest
\* minimax value, with that value as score; << >> when there is no move.
FirstBest(gs, depth, exact) ==
    LET moves == orderMoves(getAllLegalMoves(gs))
        value == [i \in 1 .. Len(moves) |->
                    minimax(PositionOf(gs, moves[i], exact), depth - 1,
                            0 - Infinity, Infinity, FALSE, gs.currentPlayer)]
        k == FirstMaximum(value)
    IN IF Len(moves) = 0 THEN << >>
       ELSE << [from |-> moves[k].from, to |-> moves[k].to,
                score |-> value[k]] >>

\* C23: getMiniMaxMove returns a move whose score is the largest minimax
\* value of the positions the top-level legal moves lead to, the first such
\* move of the ordered move list when several attain it.
C23_ReturnsFirstMaximum ==
    aiResult.call = "getMiniMaxMove"
      => aiResult.move = FirstBest(this, aiResult.depth, TRUE)

\* The same with each top-level move scored by the position that the call
\* makeMove(move.from, move.to) leads to, which is what the loop computes.
FirstMaximumOfCalls ==
    aiResult.call = "getMiniMaxMove"
      => aiResult.move = FirstBest(this, aiResult.depth, FALSE)

\* The state of a freshly constructed default session, written out: BLACK
\* men on the dark squares of rows 0-2, RED men on those of rows 5-7, RED
\* to move, active, no winner, no history, tallies 0.
DefaultSession ==
    [board |-> [row \in 0 .. 7 |-> [col \in 0 .. 7 |->
                  IF (row + col) % 2 = 1 /\ row \in 0 .. 2 THEN PIECE_BLACK
                  ELSE IF (row + col) % 2 = 1 /\ row \in 5 .. 7
                  THEN PIECE_RED
                  ELSE PIECE_EMPTY]],
     currentPlayer |-> PLAYER_RED,
     gameStatus |-> "active",
     winner |-> null,
     moveHistory |-> << >>,
     capturedPieces |-> [red |-> 0, black |-> 0]]

\* C24: reset() from any session state, a finished one included, leaves
\* exactly the state of a freshly constructed default session, and moves
\* are accepted again afterwards.
C24_ResetRestoresDefault ==
    /\ [][ret'.call = "reset" => this' = DefaultSession]_vars
    /\ [](ret.call = "reset" =>
            /\ this = GameState(initializeBoard, PLAYER_RED)
            /\ PieceCount(board, PLAYER_RED) = 12
            /\ PieceCount(board, PLAYER_BLACK) = 12
            /\ Len(getAllLegalMoves(this)) > 0
            /\ \A i \in 1 .. Len(getAllLegalMoves(this)) :
                  LET m == getAllLegalMoves(this)[i]
                  IN makeMove(this, m.from, m.to).result)
    /\ [][(gameStatus = "finished" /\ ret'.call = "reset")
            => /\ gameStatus' = "active"
               /\ \E c \in CallInputs(this') :
                     makeMove(this', c[1], c[2]).result]_vars

\* reset() has just been called.
C24_Witness ==
    /\ ret.call = "reset"
    /\ gameStatus = "active"
    /\ moveHistory = << >>
    /\ board = initializeBoard

IsCapture(m) == m.isJump

IsQuiet(m) == ~m.isJump

\* C25: for a list of legal moves orderMoves returns a permutation of the
\* list in which every capture precedes every non-capture, the captures in
\* the order they had in the input and the non-captures likewise.
C25_OrderMovesStable ==
    aiResult.call = "orderMoves" =>
        LET moves == aiResult.arg
            ordered == aiResult.value
        IN /\ Len(ordered) = Len(moves)
           /\ \A x \in Range(moves) \cup Range(ordered) :
                 Cardinality({i \in 1 .. Len(ordered) : ordered[i] = x})
                   = Cardinality({i \in 1 .. Len(moves) : moves[i] = x})
           /\ \A i, j \in 1 .. Len(ordered) :
                 (i < j /\ ordered[j].isJump) => ordered[i].isJump
           /\ SelectSeq(ordered, IsCapture) = SelectSeq(moves, IsCapture)
           /\ SelectSeq(ordered, IsQuiet) = SelectSeq(moves, IsQuiet)

\* orderMoves was given two non-captures followed by two captures.
C25_Witness ==
    /\ aiResult.call = "orderMoves"
    /\ aiResult.value # aiResult.arg
    /\ Len(SelectSeq(aiResult.arg, IsCapture)) >= 2
    /\ Len(SelectSeq(aiResult.arg, IsQuiet)) >= 2
    /\ ~aiResult.arg[1].isJump

\* What one piece contributes to its side, in halves of a point: 10 for a
\* man and 30 for a king; for a man 2 on its own back rank and 0.5 for each
\* row it has advanced from there; 1 on the 16 squares of rows and columns
\* 2 to 5.
Contribution(b, q) ==
    LET piece == b[q.row][q.col]
        man == piece \in {PIECE_RED, PIECE_BLACK}
        advanced == IF piece = PIECE_RED THEN 7 - q.row ELSE q.row
    IN (IF man THEN 20 ELSE 60)
         + (IF man /\ advanced = 0 THEN 4 ELSE 0)
         + (IF man THEN advanced ELSE 0)
         + (IF q.row \in 2 .. 5 /\ q.col \in 2 .. 5 THEN 2 ELSE 0)

\* The sum of the contributions of the pieces on the given squares.
RECURSIVE Contributions(_, _)
Contributions(b, squares) ==
    IF squares = {} THEN 0
    ELSE LET q == CHOOSE x \in squares : TRUE
         IN Contribution(b, q) + Contributions(b, squares \ {q})

\* The squares holding the pieces of a side.
PiecesOf(b, player) ==
    {q \in Occupied(b) : getPieceOwner(b[q.row][q.col]) = player}

\* C26: evaluateBoard(B, player) is the sum of the contributions of the
\* pieces of player minus the sum of those of the opponent, so that
\* evaluateBoard(B, RED) = -evaluateBoard(B, BLACK).
C26_EvaluationZeroSum ==
    /\ evaluateBoard(board, PLAYER_RED)
         = 0 - evaluateBoard(board, PLAYER_BLACK)
    /\ aiResult.call = "evaluateBoard" =>
          /\ aiResult.value
               = Contributions(board, PiecesOf(board, aiResult.player))
                   - Contributions(board,
                        PiecesOf(board, getOpponent(aiResult.player)))
          /\ aiResult.value
               = 0 - evaluateBoard(board, getOpponent(aiResult.player))

\* A board with a king, a man on its own back rank and a man in the centre
\* has been evaluated, and not to 0.
C26_Witness ==
    /\ aiResult.call = "evaluateBoard"
    /\ aiResult.value # 0
    /\ \E q \in Occupied(board) : isKing(board[q.row][q.col])
    /\ \E q \in Occupied(board) :
          q.row = 0 /\ board[q.row][q.col] = PIECE_BLACK
    /\ \E q \in Occupied(board) :
          q.row = 7 /\ board[q.row][q.col] = PIECE_RED
    /\ \E q \in Occupied(board) :
          ~isKing(board[q.row][q.col]) /\ isCenterSquare(q.row, q.col)

\* C27: getDifficultyDepth maps 'easy' to 3, 'medium' to 5 and 'hard' to 7
\* in any letter case, and every other string, the empty one included,
\* to 5.
C27_DifficultyDepth ==
    aiResult.call = "getDifficultyDepth" =>
        LET name == aiResult.difficulty
        IN /\ name \in {"easy", "Easy", "EASY", "eAsY"}
                => aiResult.value = 3
           /\ name \in {"medium", "Medium", "MEDIUM", "mEdIuM"}
                => aiResult.value = 5
           /\ name \in {"hard", "Hard", "HARD", "hArD"}
                => aiResult.value = 7
           /\ name \in {"expert", "EXPERT", "unknown", "constructor",
                         "toString", "easy ", ""}
                => aiResult.value = 5
           /\ aiResult.value \in {3, 5, 7}

\* getDifficultyDepth was given 'hArD'.
C27_Witness ==
    /\ aiResult.call = "getDifficultyDepth"
    /\ aiResult.difficulty = "hArD"
    /\ aiResult.value = 7

\* Player p can force a win within d plies: the game is finished with p as
\* winner, or the opponent is to move and has no legal move (a loss for the
\* side to move), or p is to move and some move, or the opponent is to move
\* and every move, leads to a position where p can force a win within
\* d - 1 plies.  A move is a call makeMove(from, to) the session accepts.
RECURSIVE Forces(_, _, _)
Forces(gs, d, p) ==
    IF isGameOver(gs) THEN gs.winner = p
    ELSE LET moves == generateAllMoves(gs.board, gs.currentPlayer)
             next == {makeMove(gs, moves[i].from, moves[i].to).state :
                        i \in 1 .. Len(moves)}
         IN IF next = {} THEN gs.currentPlayer # p
            ELSE IF d = 0 THEN FALSE
            ELSE IF gs.currentPlayer = p
            THEN \E n \in next : Forces(n, d - 1, p)
            ELSE \A n \in next : Forces(n, d - 1, p)

\* minimax(session, d, -Infinity, Infinity, true, aiPlayer) has returned on
\* an active session with aiPlayer to move.
ScoredForMover ==
    /\ aiResult.call = "minimax"
    /\ gameStatus = "active"
    /\ aiResult.player = currentPlayer

\* Every static evaluation lies strictly between -10000 and 10000.
StaticWithinBounds ==
    \A p \in Players : Abs(evaluateBoard(board, p)) < ScoreUnit * 10000

C29_MakeMoveExecutesExactly ==
    LET moves == getAllLegalMoves(this)
    IN /\ \A i \in 1 .. Len(moves) :
             LET r == makeMove(this, moves[i].from, moves[i].to)
             IN /\ r.result
                /\ r.state.board = applyMove(board, moves[i])
                /\ LastRecord(r.state.moveHistory).captured
                     = moves[i].captured
       /\ \A i, j \in 1 .. Len(moves) :
             (moves[i].from = moves[j].from /\ moves[i].to = moves[j].to)
                => moves[i].captured = moves[j].captured

\* Two capture sequences with the same origin and destination take
\* different pieces and leave different boards.
AmbiguousCapture ==
    \E m, n \in Range(getAllLegalMoves(this)) :
        /\ m.from = n.from
        /\ m.to = n.to
        /\ Range(m.captured) # Range(n.captured)
        /\ applyMove(board, m) # applyMove(board, n)

\* What holds: the call executes the first move of the piece's own list
\* that ends on the given square.
MakeMoveExecutesFirstMatch ==
    LET moves == getAllLegalMoves(this)
    IN \A i \in 1 .. Len(moves) :
          LET first == CHOOSE k \in 1 .. Len(moves) :
                          /\ moves[k].from = moves[i].from
                          /\ moves[k].to = moves[i].to
                          /\ \A j \in 1 .. (k - 1) :
                                ~(moves[j].from = moves[i].from
                                    /\ moves[j].to = moves[i].to)
          IN makeMove(this, moves[i].from, moves[i].to).state
               = After(this, moves[first])

\* The moves generateMoves returns for the pieces on board b and the moves
\* generateAllMoves returns for the two sides.
ProducedMoves(b) ==
    UNION {Range(generateMoves(b, q)) : q \in Occupied(b)}
      \cup UNION {Range(generateAllMoves(b, S)) : S \in Players}

\* The destination square of applyMove(b, m) holds the piece that moved,
\* as it was or promoted to king.
MoverOnDestination(b, m) ==
    LET piece == b[m.from.row][m.from.col]
        landed == applyMove(b, m)[m.to.row][m.to.col]
    IN /\ landed # PIECE_EMPTY
       /\ getPieceOwner(landed) = getPieceOwner(piece)
       /\ landed = piece \/ (~isKing(piece) /\ isKing(landed))

\* C30: for every move M produced by generateMoves / generateAllMoves on
\* board B the destination square of applyMove(B, M) holds the moving piece
\* (possibly promoted); a king whose capture sequence returns to its origin
\* square is still on the board after the move.
C30_DestinationHoldsMover ==
    \A m \in ProducedMoves(board) :
        /\ MoverOnDestination(board, m)
        /\ m.to = m.from =>
              PieceCount(applyMove(board, m),
                         getPieceOwner(board[m.from.row][m.from.col]))
                = PieceCount(board,
                             getPieceOwner(board[m.from.row][m.from.col]))

\* What holds: the moving piece is on the destination whenever the
\* destination is not the origin.
MoverOnOtherDestination ==
    \A m \in ProducedMoves(board) :
        m.to # m.from => MoverOnDestination(board, m)

\* The session is the default session or has executed a move: it is in a
\* state that successful makeMove calls lead to from a position in which
\* the side to move had a legal move, as the standard initial position is.
Played == this = DefaultSession \/ Len(moveHistory) > 0

\* The calls of the minimax run recorded in aiResult.
RecordedCalls ==
    minimaxWith(TRUE, this, aiResult.depth, 0 - Infinity, Infinity,
                aiResult.player = currentPlayer, aiResult.player).nodes

\* C31: in a session reached by successful makeMove calls the status is
\* 'active' iff the side to move has a legal move and the winner is
\* non-null iff the status is 'finished'; a search on such a session never
\* returns through the draw branch (finished, winner null) nor through the
\* no-moves branch.
C31_StatusMatchesMoves ==
    Played =>
        /\ gameStatus \in {"active", "finished"}
        /\ gameStatus = "active" <=> hasLegalMoves(board, currentPlayer)
        /\ winner # null <=> gameStatus = "finished"
        /\ aiResult.call = "minimax" =>
              \A c \in Range(RecordedCalls) :
                  /\ c.branch # "noMoves"
                  /\ c.branch = "finished" => c.winner # null
                  /\ c.winner # null <=> c.gameStatus = "finished"

\* A search of depth 3 on a session that has executed a move and is active
\* has reached a finished position.
C31_Witness ==
    /\ Len(moveHistory) > 0
    /\ gameStatus = "active"
    /\ aiResult.call = "minimax"
    /\ aiResult.depth = 3
    /\ \E c \in Range(RecordedCalls) : c.branch = "finished"

\* The minimax calls of the getMiniMaxMove search recorded in aiResult.
SearchedCalls == Range(SearchCalls(TRUE, this, aiResult.depth))

\* C32: in every minimax call of a search started with getMiniMaxMove,
\* aiPlayer is the side to move at the root and isMaximizing is true
\* exactly when the side to move in the session passed is aiPlayer; the
\* session passed has executed a move more than the root for every level
\* below it (every clonedState.makeMove has succeeded).
C32_MaximizingIffAiToMove ==
    aiResult.call = "getMiniMaxMove" =>
        \A c \in SearchedCalls :
            /\ c.aiPlayer = currentPlayer
            /\ c.isMaximizing <=> c.toMove = c.aiPlayer
            /\ c.played = Len(moveHistory) + (aiResult.depth - c.depth)

\* A search of depth 3 has made maximizing and minimizing calls, one of
\* them on a finished session.
C32_Witness ==
    /\ aiResult.call = "getMiniMaxMove"
    /\ aiResult.depth = 3
    /\ \E c \in SearchedCalls : c.isMaximizing /\ c.branch = "moves"
    /\ \E c \in SearchedCalls : ~c.isMaximizing /\ c.branch = "moves"
    /\ \E c \in SearchedCalls : c.branch = "finished"

\* The sum of the lengths of the captured lists of the records of history
\* whose mover is player.
RECURSIVE CapturedBy(_, _)
CapturedBy(history, player) ==
    IF Len(history) = 0 THEN 0
    ELSE (IF history[Len(history)].player = player
          THEN Len(history[Len(history)].captured) ELSE 0)
           + CapturedBy(SubSeq(history, 1, Len(history) - 1), player)

\* The pieces of side p that the step has taken off the board, and what
\* the step has added to the tally of p.
PiecesLost(p) == PieceCount(board, p) - PieceCount(board', p)

TallyAdded(p) == capturedPieces'[p] - capturedPieces[p]

\* C33: capturedPieces[P] is the number of P's pieces removed from the
\* board since the session was created (0 at creation, and raised by every
\* makeMove call by the number of P's pieces that leave the board), and
\* equals the sum of the captured-list lengths of the history records whose
\* mover is P's opponent.
C33_TallyIsPiecesRemoved ==
    /\ [](Len(moveHistory) = 0 => \A p \in Players : capturedPieces[p] = 0)
    /\ [](\A p \in Players :
            capturedPieces[p] = CapturedBy(moveHistory, getOpponent(p)))
    /\ [][ret'.call = "makeMove"
            => \A p \in Players : PiecesLost(p) = TallyAdded(p)]_vars

\* What holds: the tally is the sum over the history, and a makeMove call
\* removes as many pieces of a side as it adds to its tally unless the move
\* ends on the square it started from.
TallyIsPiecesCaptured ==
    /\ [](\A p \in Players :
            capturedPieces[p] = CapturedBy(moveHistory, getOpponent(p)))
    /\ [][(ret'.call = "makeMove" /\ ret'.value
              /\ LastRecord(moveHistory').from # LastRecord(moveHistory').to)
            => \A p \in Players : PiecesLost(p) = TallyAdded(p)]_vars

\* The number of plies below the root of the search at which the session
\* of the minimax call c stands.
PliesBelowRoot(c) == c.played - Len(moveHistory)

\* C34: a search getMiniMaxMove(session, d), d >= 1, comes to an end: a
\* minimax call k plies below the root has depth d - k (one less per
\* level), no call is made beyond ply d, a call with depth 0 or on a
\* finished session returns without a further call, and every other call
\* has depth at least 1.
C34_SearchDepthBounded ==
    (aiResult.call = "getMiniMaxMove" /\ aiResult.depth >= 1) =>
        LET calls == SearchCalls(TRUE, this, aiResult.depth)
        IN /\ \A c \in Range(calls) :
                 /\ c.depth = aiResult.depth - PliesBelowRoot(c)
                 /\ PliesBelowRoot(c) \in 1 .. aiResult.depth
                 /\ c.branch \in {"finished", "static"}
                       <=> (c.depth = 0 \/ c.gameStatus = "finished")
           /\ \A k \in 1 .. (Len(calls) - 1) :
                 IF calls[k].branch \in {"finished", "static", "noMoves"}
                 THEN calls[k + 1].depth >= calls[k].depth
                 ELSE calls[k + 1].depth = calls[k].depth - 1

\* A search of depth 3 on a board with a king, in which no line finishes
\* the game, has gone down to depth 0 and returned a move.
C34_Witness ==
    /\ aiResult.call = "getMiniMaxMove"
    /\ aiResult.depth = 3
    /\ aiResult.move # << >>
    /\ \E q \in Occupied(board) : isKing(board[q.row][q.col])
    /\ \A c \in SearchedCalls : c.gameStatus = "active"
    /\ \E c \in SearchedCalls : c.depth = 0

(***************************************************************************)
(* The page (main.js, boardView.js): one session at a time in gameState,   *)
(* rendered by the board view, driven by clicks on the squares, clicks on  *)
(* the mode and new-game buttons, and the timers makeAIMove sets.  Every   *)
(* handler runs to its end before the next one starts.  currentGameState   *)
(* of boardView.js is the object gameState of main.js refers to, and       *)
(* onMoveCompleteCallback is makeAIMove, from the first startNewGame on.   *)
(***************************************************************************)
\* createNewGame()
createNewGame == GameState(initializeBoard, PLAYER_RED)

\* deselectSquare()
deselectSquare(pg) ==
    [pg EXCEPT !.selectedSquare = << >>, !.validMoves = << >>,
               !.highlighted = {}]

\* selectSquare(row, col, gameState): clearHighlights, then the legal moves
\* of the square, whose destinations highlightValidMoves marks.
selectSquare(pg, q, gs) ==
    LET moves == getLegalMoves(gs, q)
    IN [pg EXCEPT !.selectedSquare = q, !.validMoves = moves,
                  !.highlighted = {moves[i].to : i \in DOMAIN moves}]

\* initializeBoardView(gameState, onMoveComplete): the selection is reset;
\* rendering replaces the pieces and leaves the classes of the squares.
initializeBoardView(pg) ==
    [pg EXCEPT !.selectedSquare = << >>, !.validMoves = << >>]

\* makeAIMove(): a timer is set when a difficulty is set, the game is not
\* over and BLACK is to move.  The timer is recorded with the game that
\* gameState refers to when it is set.
makeAIMove(pg, gs) ==
    IF pg.aiDifficulty = null THEN pg
    ELSE IF isGameOver(gs) THEN pg
    ELSE IF gs.currentPlayer = PLAYER_BLACK
    THEN [pg EXCEPT !.timers = Append(@, [game |-> pg.game])]
    ELSE pg

\* executeMove(from, to, gameState)
executeMove(pg, gs, from, to) ==
    LET r == makeMove(gs, from, to)
    IN IF r.result
       THEN [result |-> TRUE, state |-> r.state,
             page |-> makeAIMove(deselectSquare(pg), r.state)]
       ELSE [result |-> FALSE, state |-> gs, page |-> pg]

\* handleSquareClick(event) for a click on the square q.
handleSquareClick(pg, gs, q) ==
    LET piece == gs.board[q.row][q.col]
        pieceOwner == IF piece = PIECE_RED \/ piece = PIECE_RED_KING
                      THEN PLAYER_RED ELSE PLAYER_BLACK
        unmoved(pg1) == [result |-> FALSE, state |-> gs, page |-> pg1]
    IN IF isGameOver(gs) THEN unmoved(pg)
       ELSE IF pg.selectedSquare # << >> /\ pg.selectedSquare = q
       THEN unmoved(deselectSquare(pg))
       ELSE IF pg.selectedSquare # << >> /\ q \in pg.highlighted
       THEN executeMove(pg, gs, pg.selectedSquare, q)
       ELSE IF piece # PIECE_EMPTY /\ pieceOwner = gs.currentPlayer
       THEN unmoved(selectSquare(pg, q, gs))
       ELSE unmoved(deselectSquare(pg))

\* The difficulty startNewGame(mode) sets.
difficultyOfMode(mode) ==
    IF mode = "vs-ai-easy" THEN "easy"
    ELSE IF mode = "vs-ai-medium" THEN "medium"
    ELSE IF mode = "vs-ai-hard" THEN "hard"
    ELSE null

\* startNewGame(mode): gameState refers to a new session afterwards.
startNewGame(pg, mode) ==
    initializeBoardView([pg EXCEPT !.game = @ + 1, !.gameMode = mode,
                                   !.aiDifficulty = difficultyOfMode(mode)])

\* The function makeAIMove passes to setTimeout, from `if (aiMove)` on;
\* aiMove is << >> for null.
timerMove(pg, gs, aiMove) ==
    IF aiMove = << >> THEN [raised |-> FALSE, state |-> gs, page |-> pg]
    ELSE LET r == makeMove(gs, aiMove[1].from, aiMove[1].to)
         IN IF r.result
            THEN [raised |-> FALSE, state |-> r.state,
                  page |-> initializeBoardView(pg)]
            ELSE [raised |-> FALSE, state |-> gs, page |-> pg]

\* The function makeAIMove passes to setTimeout, run on the values gameState
\* and aiDifficulty have when the timer fires.  getBestMove(gameState, null)
\* raises in getDifficultyDepth, at `difficulty.toLowerCase()`.  The search
\* is run once and its result bound to aiMove.
timerCallback(pg, gs) ==
    IF pg.aiDifficulty = null
    THEN [raised |-> TRUE, state |-> gs, page |-> pg]
    ELSE CHOOSE done \in {timerMove(pg, gs, aiMove) :
                            aiMove \in {getBestMove(gs, pg.aiDifficulty)}} :
             TRUE

\* The modes of the buttons that start a game.
ModeInputs == {"vs-ai-easy", "vs-ai-medium", "vs-ai-hard", "local-2p"}

\* The squares clicked: two RED men, two BLACK men, squares they can step
\* to, and a light square.
ClickInputs ==
    {Pos(5, 2), Pos(4, 3), Pos(5, 4), Pos(2, 3), Pos(3, 2), Pos(0, 0)}

\* At most this many games are started on the page.
MaxPageGames == 3

\* At most this many moves are made in a game.
MaxPageMoves == 3

\* A timer is fired when the search it starts is at most this deep.
MaxPageDepth == 3

\* The page when the DOMContentLoaded handler has returned:
\* startNewGame('local-2p').
InitApp ==
    /\ board = createNewGame.board
    /\ currentPlayer = createNewGame.currentPlayer
    /\ gameStatus = createNewGame.gameStatus
    /\ winner = createNewGame.winner
    /\ moveHistory = createNewGame.moveHistory
    /\ capturedPieces = createNewGame.capturedPieces
    /\ page = startNewGame(NoPage, "local-2p")
    /\ ret = [call |-> "DOMContentLoaded", value |-> TRUE]
    /\ aiResult = NoResult
    /\ store = NoStore

\* A click on a square of the board.
ClickSquare(q) ==
    /\ Len(moveHistory) < MaxPageMoves
    /\ \E r \in {handleSquareClick(page, this, q)} :
          /\ Install(r.state)
          /\ page' = r.page
          /\ ret' = [call |-> "handleSquareClick", value |-> r.result]
    /\ UNCHANGED <<aiResult, store>>

\* A handler has called startNewGame(mode).
NewGame(mode) ==
    /\ page.game < MaxPageGames
    /\ Install(createNewGame)
    /\ page' = startNewGame(page, mode)
    /\ ret' = [call |-> "startNewGame", value |-> TRUE]
    /\ UNCHANGED <<aiResult, store>>

\* A click on one of the buttons vs-ai-easy, vs-ai-medium, vs-ai-hard and
\* local-2p.
ClickMode(mode) == NewGame(mode)

\* A click on the new-game button.
ClickNewGame ==
    NewGame(IF page.gameMode # null THEN page.gameMode ELSE "local-2p")

\* The oldest pending timer fires.
FireTimer ==
    /\ page.timers # << >>
    /\ Len(moveHistory) < MaxPageMoves
    /\ page.aiDifficulty # null
         => getDifficultyDepth(page.aiDifficulty) <= MaxPageDepth
    /\ \E r \in {timerCallback([page EXCEPT !.timers = Tail(@)], this)} :
          /\ Install(r.state)
          /\ page' = r.page
          /\ ret' = [call |-> "timer", value |-> r.raised]
    /\ UNCHANGED <<aiResult, store>>

NextApp ==
    \/ \E q \in ClickInputs : ClickSquare(q)
    \/ \E mode \in ModeInputs : ClickMode(mode)
    \/ ClickNewGame
    \/ FireTimer

SpecApp == InitApp /\ [][NextApp]_vars

\* The step is the firing of a timer.
TimerFired == ret'.call = "timer"

\* The owner of the piece the last executed move of the step has moved.
MovedSide ==
    getPieceOwner(board[LastRecord(moveHistory').from.row]
                       [LastRecord(moveHistory').from.col])

\* C35: in a vs-AI game the move made by the timer callback of makeAIMove
\* is always a BLACK move on the game the timer was set for: whatever the
\* order of board clicks, mode and new-game clicks and timer firings, the
\* callback never runs with aiDifficulty null, never acts on a game started
\* after the timer was set, and never moves a RED piece.
C35_TimerMovesBlackOnItsGame ==
    [][TimerFired =>
         /\ page.aiDifficulty # null
         /\ page.timers[1].game = page.game
         /\ Len(moveHistory') > Len(moveHistory)
               => MovedSide = PLAYER_BLACK]_vars

\* The step is a click on a square while a difficulty is set.
ClickedInAiGame ==
    ret'.call = "handleSquareClick" /\ page.aiDifficulty # null

\* The owner of the piece on the square selected after the step.
SelectedSide ==
    getPieceOwner(board'[page'.selectedSquare.row][page'.selectedSquare.col])

\* C36: in a vs-AI game BLACK is moved only by the AI: no click handled by
\* handleSquareClick, clicks made while the timer of makeAIMove is pending
\* included, selects a BLACK piece or executes a BLACK move, so that every
\* BLACK record of the move history is made by the timer callback.
C36_BlackMovedOnlyByTimer ==
    [][ClickedInAiGame =>
         /\ page'.selectedSquare # << >> => SelectedSide # PLAYER_BLACK
         /\ Len(moveHistory') > Len(moveHistory)
               => MovedSide # PLAYER_BLACK]_vars

\* No man stands on the row where it is promoted.
NoManOnKingRow(b) ==
    \A col \in Rows :
        b[0][col] # PIECE_RED /\ b[BoardSize - 1][col] # PIECE_BLACK

\* The king of the side of piece.
KingOf(piece) ==
    IF getPieceOwner(piece) = PLAYER_RED THEN PIECE_RED_KING
    ELSE PIECE_BLACK_KING

\* C37: from the standard initial board, no state reached by successful
\* makeMove calls has a RED man on row 0 or a BLACK man on row 7: the
\* standard board has none and a successful makeMove on a board without one
\* leaves none; a man that lands on its promotion row, by a simple move or
\* at the end of a capture sequence, is a king on the resulting board; and
\* every man on the resulting board is a man that stood there before or the
\* man that has moved, so that no king becomes a man.
C37_MenPromotedKingsStay ==
    /\ [](board = initializeBoard => NoManOnKingRow(board))
    /\ [][(Moved' /\ NoManOnKingRow(board)) => NoManOnKingRow(board')]_vars
    /\ [][Moved' =>
            LET rec == LastRecord(moveHistory')
                piece == board[rec.from.row][rec.from.col]
            IN /\ Promotes(board, rec)
                    => board'[rec.to.row][rec.to.col] = KingOf(piece)
               /\ \A q \in Squares :
                    (board'[q.row][q.col] \in {PIECE_RED, PIECE_BLACK})
                      => \/ board'[q.row][q.col] = board[q.row][q.col]
                         \/ q = rec.to /\ board'[q.row][q.col] = piece]_vars

\* The first move of a session has been a capture by a man that ends on
\* the man's promotion row, and the man is a king there.
C37_Witness ==
    /\ Moved
    /\ Len(moveHistory) = 1
    /\ LET rec == LastRecord(moveHistory)
       IN /\ rec.isJump
          /\ isKing(board[rec.to.row][rec.to.col])
          /\ \E b \in InitBoards :
                /\ \/ b[rec.from.row][rec.from.col] = PIECE_RED
                   \/ b[rec.from.row][rec.from.col] = PIECE_BLACK
                /\ isValidMove(b, rec.from, rec.to, rec.player)
                /\ Promotes(b, rec)
                /\ board = applyMove(b, ExecutedMove(b, rec.from, rec.to))

\* The squares of b holding a piece of side S whose generateMoves list is
\* not empty.
MovablePieces(b, S) ==
    {q \in Squares : /\ isPlayerPiece(b[q.row][q.col], S)
                     /\ Len(generateMoves(b, q)) > 0}

\* hasLegalMoves and generateAllMoves agree with the per-piece lists on b.
AgreesWithPieceMoves(b) ==
    \A S \in Players :
        /\ hasLegalMoves(b, S) <=> MovablePieces(b, S) # {}
        /\ \A m \in Range(generateAllMoves(b, S)) :
              m \in Range(generateMoves(b, m.from))

\* The side to move has a piece whose getLegalMoves list is not empty.
MoverCanMove ==
    \E q \in Squares :
        /\ isPlayerPiece(board[q.row][q.col], currentPlayer)
        /\ Len(getLegalMoves(this, q)) > 0

====
